---- MODULE Spec2Model ----
(***************************************************************************)
(* State-machine model of the data-access layer of claud_data_shop:        *)
(* DatabaseService (src/core/database.py) and its sales specialisation     *)
(* SalesDataService (src/services/database/sales.py).                      *)
(*                                                                         *)
(* Request-scoped coroutines (Procs) call repository operations.  Every    *)
(* `await` of the source is an interleaving point: one action per awaited  *)
(* statement.  The store is PostgreSQL reached through an asyncpg pool:    *)
(* statements outside `conn.transaction()` autocommit; statements inside   *)
(* write to a pending set that is applied at commit and dropped at         *)
(* rollback (READ COMMITTED: other connections read committed rows only);  *)
(* an UPDATE holds its row locks until the transaction ends.               *)
(*                                                                         *)
(* Python None is the empty tuple <<>> and a present value v is <<v>>.     *)
(* Strings that the code builds (order ids) are tuples of characters.      *)
(* Money amounts are integers (minor units).                               *)
(***************************************************************************)
EXTENDS Integers, Sequences, FiniteSets, Bags, TLC

\* ------------------------------------------------------------------ bounds
\* Longest item list handed to create_sale.
MaxItems == 2
\* Largest pool size (asyncpg max_size) a behaviour may be configured with.
MaxPool == 2
\* order_counter.last_number of the single counter row at start.
InitLastNumber == 9
\* Longest list of role names handed to create_user.
MaxRoles == 2

\* Request coroutines; each makes one repository call.
Procs == {1, 2, 3}
\* The coroutines of the specifications that mix all operations.
Pair == {1, 2}
NoProc == 0
UserIds == {1}
WarehouseIds == {1}
ProductIds == {1}
Quantities == {5, 8}
Statuses == {"paid"}

\* The fields of the model's records (rows, calls, results), in the order every
\* record lists them.
Fields ==
    [action |-> 0, audit_log |-> 0, barcode |-> 0, by |-> 0, col |-> 0, cols |-> 0,
     cost_price |-> 0, counter |-> 0, currency |-> 0, department |-> 0, details |-> 0,
     entity |-> 0, entity_id |-> 0, from |-> 0, id |-> 0, is_active |-> 0, items |-> 0,
     key |-> 0, kind |-> 0, limit |-> 0, lit |-> 0, local_products |-> 0,
     location |-> 0, max_price |-> 0, min_price |-> 0, name |-> 0, nterms |-> 0,
     op |-> 0, order |-> 0, order_counter |-> 0, order_id |-> 0, page |-> 0,
     param_index |-> 0, params |-> 0, parts |-> 0, payment_data |-> 0,
     payment_id |-> 0, payment_method |-> 0, payment_provider |-> 0, payments |-> 0,
     ph |-> 0, phs |-> 0, price |-> 0, proc |-> 0, product_data |-> 0,
     product_id |-> 0, products |-> 0, quantity |-> 0, receipts |-> 0, roles |-> 0,
     sale |-> 0, sale_id |-> 0, sales |-> 0, sales_items |-> 0, search |-> 0,
     select |-> 0, set |-> 0, skip |-> 0, sku_code |-> 0, sku_name |-> 0,
     sort_by |-> 0, sort_order |-> 0, status |-> 0, stock_insert |-> 0,
     stock_update |-> 0, supplier |-> 0, total |-> 0, total_amount |-> 0,
     updated_at |-> 0, user_data |-> 0, user_id |-> 0, username |-> 0, users |-> 0,
     value |-> 0, warehouse_id |-> 0, warehouse_products |-> 0, warehouses |-> 0,
     where |-> 0]

None == << >>
Some(v) == << v >>
IsNone(o) == o = << >>
Val(o) == o[1]

\* Items a caller may put in a sale: SaleItem(product_id, warehouse_id,
\* quantity, price, cost_price).
ItemPool ==
    { [cost_price |-> 1, price |-> 3, product_id |-> 1, quantity |-> 2, warehouse_id |-> 1],
      [cost_price |-> 2, price |-> 5, product_id |-> 2, quantity |-> 1, warehouse_id |-> 1] }

ItemLists == UNION { [1..n -> ItemPool] : n \in 0..MaxItems }

\* ------------------------------------------------------- pure functions
Digit(d) ==
    CASE d = 0 -> "0" [] d = 1 -> "1" [] d = 2 -> "2" [] d = 3 -> "3" [] d = 4 -> "4"
      [] d = 5 -> "5" [] d = 6 -> "6" [] d = 7 -> "7" [] d = 8 -> "8" [] d = 9 -> "9"

\* str(n) of a non-negative int: its decimal digits.
RECURSIVE FormatInt(_)
FormatInt(n) ==
    IF n < 10 THEN << Digit(n) >> ELSE FormatInt(n \div 10) \o << Digit(n % 10) >>

\* f"ORD-{last_number}": last_number is the fetchval result, None when the
\* UPDATE ... RETURNING returned no row.
FormatOrderId(last_number) ==
    << "O", "R", "D", "-" >> \o
        (IF IsNone(last_number) THEN << "N", "o", "n", "e" >> ELSE FormatInt(Val(last_number)))

\* item.price * item.quantity
ItemTotal(item) == item.price * item.quantity

RECURSIVE SumTotals(_, _)
SumTotals(items, k) ==
    IF k = 0 THEN 0 ELSE SumTotals(items, k - 1) + ItemTotal(items[k])

\* Faulty variant: the last item is left out of the sum.
SaleTotalDropLast(items) == SumTotals(items, IF Len(items) = 0 THEN 0 ELSE Len(items) - 1)

\* sum(item.price * item.quantity for item in items)
SaleTotal(items) == SumTotals(items, Len(items))

\* Faulty variant: asyncpg status "UPDATE <n>" tested with startswith("UPDATE").
StatusResultAnyCount(n) == TRUE

\* result == "UPDATE 1", n the number of rows the UPDATE changed.
StatusResult(n) == n = 1

\* Faulty variant: the stored quantity is incremented.
NewQuantitySummed(existing, quantity) == existing + quantity

\* UPDATE warehouse_products SET quantity = $1: the new quantity of a row that
\* held `existing`.
NewQuantity(existing, quantity) == quantity

\* The status literal create_sale binds as $5.
InitialStatus == "pending"

\* Faulty variant: the loop stops one item early.
ItemLoopDoneEarly(i, items) == i >= Len(items)

\* `for item in items` is exhausted when i items have been inserted.
ItemLoopDone(i, items) == i > Len(items)

\* ------------------------------------------------------------- text values
\* A text is a tuple of characters, so that lower(), ILIKE, join and split
\* act on what it holds.
Lower(c) ==
    CASE c = "A" -> "a"
      [] c = "C" -> "c"
      [] c = "D" -> "d"
      [] c = "E" -> "e"
      [] c = "S" -> "s"
      [] c = "T" -> "t"
      [] OTHER -> c

\* str.lower()
LowerText(t) == [i \in 1..Len(t) |-> Lower(t[i])]

\* `sub` occurs in `t`.
Contains(t, sub) ==
    \E i \in 1..(Len(t) - Len(sub) + 1) : SubSeq(t, i, i + Len(sub) - 1) = sub

\* search_term = f"%{search}%"
SearchTerm(search) == << "%" >> \o search \o << "%" >>

\* value ILIKE pattern, for a pattern '%...%'.
ILike(value, pattern) ==
    Contains(LowerText(value), LowerText(SubSeq(pattern, 2, Len(pattern) - 1)))

\* Python truthiness of an Optional[str] holding a text: None and "" are falsy.
Truthy(o) == ~IsNone(o) /\ Val(o) # << >>

\* Python truthiness of an Optional[str] holding a column name.
TruthyName(o) == ~IsNone(o) /\ Val(o) # ""

\* ------------------------------------------------------------ stored rows
\* The catalogue the queries run against.
ProductRows ==
    { [barcode |-> << "9" >>, cost_price |-> 1, department |-> << "g" >>, id |-> 1, price |-> 0,
       sku_code |-> << "T", "1" >>, sku_name |-> << "t", "e", "a" >>,
       supplier |-> << "s" >>],
      [barcode |-> << "8" >>, cost_price |-> 1, department |-> << "h" >>, id |-> 2, price |-> 5,
       sku_code |-> << "C", "2" >>, sku_name |-> << "c", "u", "p" >>,
       supplier |-> << "s" >>],
      [barcode |-> << "7" >>, cost_price |-> 1, department |-> << >>, id |-> 3, price |-> 3,
       sku_code |-> << "E", "3" >>, sku_name |-> << "e", "g", "g" >>,
       supplier |-> << "s" >>] }

\* local_products rows carry their owner's user_id.
LocalProductRows ==
    { [barcode |-> << "9" >>, cost_price |-> 1, department |-> << "g" >>, id |-> 1, price |-> 0,
       sku_code |-> << "T", "1" >>, sku_name |-> << "t", "e", "a" >>,
       supplier |-> << "s" >>, user_id |-> 1],
      [barcode |-> << "8" >>, cost_price |-> 1, department |-> << >>, id |-> 2, price |-> 5,
       sku_code |-> << "C", "2" >>, sku_name |-> << "c", "u", "p" >>,
       supplier |-> << "s" >>, user_id |-> 1],
      [barcode |-> << "7" >>, cost_price |-> 1, department |-> << "g" >>, id |-> 3, price |-> 3,
       sku_code |-> << "E", "3" >>, sku_name |-> << "e", "g", "g" >>,
       supplier |-> << "s" >>, user_id |-> 2] }

WarehouseRows ==
    { [id |-> 1, location |-> << "e", "a", "s", "t" >>, name |-> << "d", "e", "p", "o", "t" >>,
       user_id |-> 1],
      [id |-> 2, location |-> << "c", "a", "s", "t", "l", "e" >>, name |-> << "s", "t", "o", "r", "e" >>,
       user_id |-> 2] }

\* Arguments the callers pass.
SearchArgs == { None, Some(<< >>), Some(<< "T" >>) }
DepartmentArgs == { None, Some(<< >>), Some(<< "g" >>) }
PriceArgs == { None, Some(0), Some(4) }
SortByArgs == { None, Some(""), Some("price"), Some("id"), Some("owner; DROP TABLE x") }
SortOrderArgs ==
    { << "a", "s", "c" >>, << "A", "S", "C" >>, << "d", "e", "s", "c" >>, << "D", "e", "s", "c" >>,
      << "u", "p" >>, << >> }

\* Stock the local-product queries join against: products 1 and 3 in warehouse 1.
StockRows ==
    SetToBag({ [product_id |-> 1, quantity |-> 5, warehouse_id |-> 1],
               [product_id |-> 3, quantity |-> 8, warehouse_id |-> 1] })

\* The users and payments present at the start.
Ann == << "a", "n", "n" >>
Bob == << "b", "o", "b" >>
Cyd == << "c", "y", "d" >>

UserRows ==
    { [is_active |-> TRUE, roles |-> Some(<< "a", ",", "v" >>), username |-> Ann],
      [is_active |-> TRUE, roles |-> None, username |-> Cyd] }

PaymentRows ==
    { [payment_id |-> << "P", "1" >>, payment_provider |-> "paypal", status |-> "created",
       updated_at |-> "before"] }

\* ------------------------------------------------------------------ state
VARIABLES
    db_pool,            \* app.db_pool as get_db returns it (None: no pool was created)
    service,            \* each request's DatabaseService: "none", "raised" or "built"
    pool_size,          \* connections the pool may hand out (fixed per behaviour)
    stock_unique,       \* schema: warehouse_products has a unique key on the pair
    pool_out,           \* connections checked out of self.pool
    order_counter,      \* committed rows of order_counter: their last_number
    counter_lock,       \* coroutine whose open transaction updated order_counter
    sales_id_seq,       \* sales.id serial
    sales,              \* committed rows of sales
    sales_items,        \* committed rows of sales_items (a bag: no key)
    receipts,           \* committed rows of receipts (a bag)
    warehouse_products, \* committed rows of warehouse_products (a bag)
    stock_lock,         \* [proc, warehouse_id, product_id]: row locks of open UPDATEs
    pc,                 \* each coroutine's position
    call,               \* the operation a coroutine runs, with its arguments
    held,               \* connections a coroutine holds
    order_id,           \* create_sale's local order_id (None: not yet bound)
    item_i,             \* create_sale's position in `for item in items`
    fetched,            \* the last fetchval / fetchrow / fetch result
    tx,                 \* rows written by the coroutine's open transaction
    result,             \* how the coroutine's last call ended
    pre,                \* the committed store when the latest call started, and its caller
    products,           \* rows of products
    local_products,     \* rows of local_products
    warehouses,         \* rows of warehouses
    users,              \* rows of users
    payments,           \* rows of payments
    audit_log,          \* rows of audit_log
    products_id_seq,    \* products.id serial
    query               \* the statement a coroutine built and its params (None: none yet)

vars ==
    << db_pool, service, pool_size, stock_unique, pool_out, order_counter, counter_lock, sales_id_seq,
       sales, sales_items, receipts, warehouse_products, stock_lock, pc, call, held,
       order_id, item_i, fetched, tx, result, pre, products, local_products,
       warehouses, users, payments, audit_log, products_id_seq, query >>

cfgvars == << db_pool, service, pool_size, stock_unique >>
entityvars ==
    << products, local_products, warehouses, users, payments, audit_log, products_id_seq >>
repovars == << entityvars, query >>
salevars == << sales_id_seq, sales, sales_items, receipts >>
stockvars == << warehouse_products, stock_lock >>
countervars == << order_counter, counter_lock >>
localvars == << order_id, item_i, fetched >>

NoTx ==
    [counter |-> None,
     items |-> EmptyBag,
     receipts |-> EmptyBag,
     sales |-> {},
     stock_insert |-> EmptyBag,
     stock_update |-> None]

NoCall == [op |-> "none"]
NoResult == [kind |-> "running"]

Snapshot(p) ==
    [audit_log |-> audit_log,
     by |-> p,
     local_products |-> local_products,
     order_counter |-> order_counter,
     payments |-> payments,
     products |-> products,
     receipts |-> receipts,
     sales |-> sales,
     sales_items |-> sales_items,
     users |-> users,
     warehouse_products |-> warehouse_products,
     warehouses |-> warehouses]

\* Order ids a caller may ask about: minted ones and unknown ones.
OrderIds == { FormatOrderId(Some(InitLastNumber + k)) : k \in 1..2 }

Init ==
    /\ db_pool = Some("pool")
    /\ service = [p \in Procs |-> "built"]
    /\ pool_size \in 1..MaxPool
    /\ stock_unique \in BOOLEAN
    /\ pool_out = 0
    /\ order_counter = << InitLastNumber >>
    /\ counter_lock = NoProc
    /\ sales_id_seq = 0
    /\ sales = {}
    /\ sales_items = EmptyBag
    /\ receipts = EmptyBag
    /\ warehouse_products = EmptyBag
    /\ stock_lock = {}
    /\ pc = [p \in Procs |-> "idle"]
    /\ call = [p \in Procs |-> NoCall]
    /\ held = [p \in Procs |-> 0]
    /\ order_id = [p \in Procs |-> None]
    /\ item_i = [p \in Procs |-> 1]
    /\ fetched = [p \in Procs |-> None]
    /\ tx = [p \in Procs |-> NoTx]
    /\ result = [p \in Procs |-> NoResult]
    /\ products = ProductRows
    /\ local_products = LocalProductRows
    /\ warehouses = WarehouseRows
    /\ users = UserRows
    /\ payments = PaymentRows
    /\ audit_log = {}
    /\ products_id_seq = Cardinality(ProductRows)
    /\ query = [p \in Procs |-> None]
    /\ pre = Snapshot(NoProc)

\* ------------------------------------------------- pool and transactions
\* Faulty variant: the connection is not handed back.
PoolLeak(n) == n

\* `async with self.pool.acquire()` exit: the connection goes back to the pool.
PoolRelease(n) == n - 1

\* Faulty variant: the rows written before the fault stay (no transaction around them).
RolledBackKeepsPending(committed, pending) == committed \cup pending

\* `async with conn.transaction()` left by an exception: ROLLBACK.
RolledBack(committed, pending) == committed

\* `async with conn.transaction()` left normally: COMMIT.
Committed(committed, pending) == committed \cup pending

\* Faulty variant: the counter moves by two.
IncrementedTwice(n) == n + 2

\* SET last_number = last_number + 1
Incremented(n) == n + 1

\* Faulty variant: the UPDATE does not wait for the row lock of an open transaction.
CounterRowsFreeNoLock(p) == TRUE

\* UPDATE order_counter waits while another open transaction holds the rows.
CounterRowsFree(p) == counter_lock = NoProc \/ Len(order_counter) = 0

\* Faulty variant: the pool is stored without a test.
ConstructedUnchecked(pool) == "built"

\* __init__: `if db_pool is None: raise ValueError(...)`, else self.pool = db_pool
Constructed(pool) == IF IsNone(pool) THEN "raised" ELSE "built"

\* get_db_service: DatabaseService(get_db()), once per request.
Construct(p) ==
    /\ service[p] = "none"
    /\ service' = [service EXCEPT ![p] = Constructed(db_pool)]
    /\ UNCHANGED << db_pool, pool_size, stock_unique, repovars, pool_out, countervars, salevars,
                    stockvars, pc, call, held, localvars, tx, result, pre >>

\* A call begins: position, arguments, locals of a fresh coroutine frame.
Begin(p, c, first) ==
    /\ service[p] = "built"
    /\ pc[p] = "idle"
    /\ call' = [call EXCEPT ![p] = c]
    /\ pc' = [pc EXCEPT ![p] = first]
    /\ order_id' = [order_id EXCEPT ![p] = None]
    /\ item_i' = [item_i EXCEPT ![p] = 1]
    /\ fetched' = [fetched EXCEPT ![p] = None]
    /\ result' = [result EXCEPT ![p] = NoResult]
    /\ pre' = Snapshot(p)
    /\ query' = [query EXCEPT ![p] = None]
    /\ UNCHANGED << cfgvars, entityvars, pool_out, countervars, salevars, stockvars, held, tx >>

\* The call ends: `kind` is how, `val` what it returns.
End(p, kind, val) ==
    /\ pc' = [pc EXCEPT ![p] = "done"]
    /\ result' = [result EXCEPT ![p] = [kind |-> kind, value |-> val]]

\* pool.acquire() hands out a connection when one is free.
Acquire(p, next) ==
    /\ pool_out < pool_size
    /\ pool_out' = pool_out + 1
    /\ held' = [held EXCEPT ![p] = @ + 1]
    /\ pc' = [pc EXCEPT ![p] = next]
    /\ UNCHANGED result

\* The coroutine's connection goes back; its open transaction is gone.
Release(p) ==
    /\ pool_out' = PoolRelease(pool_out)
    /\ held' = [held EXCEPT ![p] = @ - 1]
    /\ tx' = [tx EXCEPT ![p] = NoTx]

\* ------------------------------------ generate_order_id and create_sale
\* An exception leaves generate_order_id.  A direct caller gets it; inside
\* create_sale the `except Exception` handler logs `order_id`, which is not
\* bound yet, so the handler itself raises UnboundLocalError.
MintRaise(p) ==
    IF call[p].op = "generate_order_id"
    THEN End(p, "raise", "Exception")
    ELSE IF IsNone(order_id[p])
         THEN End(p, "raise", "UnboundLocalError")
         ELSE End(p, "false", FALSE)

\* create_sale's `except Exception`: logger.error(..., order_id, ...); return False
SaleHandler(p) ==
    IF IsNone(order_id[p])
    THEN End(p, "raise", "UnboundLocalError")
    ELSE End(p, "false", FALSE)

StartGenerateOrderId(p) ==
    Begin(p, [op |-> "generate_order_id"], "mint_acquire")

StartCreateSale(p) ==
    \E u \in UserIds, its \in ItemLists :
        Begin(p, [currency |-> "USD",
                  items |-> its,
                  op |-> "create_sale",
                  payment_method |-> "card",
                  user_id |-> u], "mint_acquire")

\* generate_order_id: async with self.pool.acquire() as conn
MintAcquire(p) ==
    /\ pc[p] = "mint_acquire"
    /\ \/ /\ Acquire(p, "mint_update")
          /\ UNCHANGED tx
       \/ /\ MintRaise(p)
          /\ UNCHANGED << pool_out, held, tx >>
    /\ UNCHANGED << cfgvars, repovars, countervars, salevars, stockvars, call, localvars, pre >>

\* UPDATE order_counter SET last_number = last_number + 1 RETURNING last_number
\* and fetchval: the first returned row's value, None when no row came back.
MintUpdate(p) ==
    /\ pc[p] = "mint_update"
    /\ \/ /\ CounterRowsFree(p)
          /\ tx' = [tx EXCEPT ![p].counter =
                        Some([i \in 1..Len(order_counter) |-> Incremented(order_counter[i])])]
          /\ counter_lock' = IF Len(order_counter) = 0 THEN counter_lock ELSE p
          /\ fetched' = [fetched EXCEPT ![p] =
                        IF Len(order_counter) = 0 THEN None ELSE Some(Incremented(order_counter[1]))]
          /\ pc' = [pc EXCEPT ![p] = "mint_exit"]
          /\ UNCHANGED << pool_out, held, result >>
       \/ /\ Release(p)
          /\ MintRaise(p)
          /\ UNCHANGED << counter_lock, fetched >>
    /\ UNCHANGED << cfgvars, repovars, order_counter, salevars, stockvars, call, order_id, item_i,
                    pre >>

\* return f"ORD-{last_number}" leaves both `async with` blocks: COMMIT, then
\* the connection goes back.  In create_sale the value is bound to order_id.
MintExit(p) ==
    /\ pc[p] = "mint_exit"
    /\ counter_lock' = IF counter_lock = p THEN NoProc ELSE counter_lock
    /\ Release(p)
    /\ \/ /\ order_counter' = Val(tx[p].counter)
          /\ IF call[p].op = "generate_order_id"
             THEN /\ End(p, "value", FormatOrderId(fetched[p]))
                  /\ UNCHANGED order_id
             ELSE /\ order_id' = [order_id EXCEPT ![p] = Some(FormatOrderId(fetched[p]))]
                  /\ pc' = [pc EXCEPT ![p] = "sale_acquire"]
                  /\ UNCHANGED result
       \/ /\ MintRaise(p)
          /\ UNCHANGED << order_counter, order_id >>
    /\ UNCHANGED << cfgvars, repovars, salevars, stockvars, call, item_i, fetched, pre >>

\* The insert transaction of create_sale is left by an exception: ROLLBACK,
\* the connection goes back, the handler returns False.
SaleAbort(p) ==
    /\ sales' = RolledBack(sales, tx[p].sales)
    /\ Release(p)
    /\ SaleHandler(p)
    /\ UNCHANGED << sales_id_seq, sales_items, receipts, item_i >>

\* create_sale: async with self.pool.acquire() as conn
SaleAcquire(p) ==
    /\ pc[p] = "sale_acquire"
    /\ \/ /\ Acquire(p, "sale_header")
          /\ UNCHANGED tx
       \/ /\ SaleHandler(p)
          /\ UNCHANGED << pool_out, held, tx >>
    /\ UNCHANGED << cfgvars, repovars, countervars, salevars, stockvars, call, localvars, pre >>

\* INSERT INTO sales (order_id, user_id, total_amount, currency, status)
SaleHeader(p) ==
    /\ pc[p] = "sale_header"
    /\ \/ /\ sales_id_seq' = sales_id_seq + 1
          /\ tx' = [tx EXCEPT ![p].sales = @ \cup
                        { [currency |-> call[p].currency,
                           id |-> sales_id_seq + 1,
                           order_id |-> Val(order_id[p]),
                           status |-> InitialStatus,
                           total_amount |-> SaleTotal(call[p].items),
                           user_id |-> call[p].user_id] }]
          /\ pc' = [pc EXCEPT ![p] = "sale_items"]
          /\ UNCHANGED << pool_out, held, result, sales, sales_items, receipts, item_i >>
       \/ SaleAbort(p)
    /\ UNCHANGED << cfgvars, repovars, countervars, stockvars, call, order_id, fetched, pre >>

\* (SELECT id FROM sales WHERE order_id = $1) as seen by p's transaction: its
\* own pending rows and the committed ones.
SaleIdRows(p) ==
    { s.id : s \in { r \in sales \cup tx[p].sales : r.order_id = Val(order_id[p]) } }

\* INSERT INTO sales_items (...) VALUES ((SELECT id ...), $2, ..., $7) for the
\* next item of the loop.  A scalar subquery that yields several rows is an
\* error; one that yields none is NULL (0 here).
SaleItemInsert(p) ==
    /\ pc[p] = "sale_items"
    /\ ~ItemLoopDone(item_i[p], call[p].items)
    /\ \/ IF Cardinality(SaleIdRows(p)) > 1
          THEN SaleAbort(p)
          ELSE LET item == call[p].items[item_i[p]]
                   sid == IF SaleIdRows(p) = {} THEN 0 ELSE CHOOSE i \in SaleIdRows(p) : TRUE
               IN /\ tx' = [tx EXCEPT ![p].items = @ (+) SetToBag(
                                { [cost_price |-> item.cost_price,
                                   price |-> item.price,
                                   product_id |-> item.product_id,
                                   quantity |-> item.quantity,
                                   sale_id |-> sid,
                                   total |-> ItemTotal(item),
                                   warehouse_id |-> item.warehouse_id] })]
                  /\ item_i' = [item_i EXCEPT ![p] = @ + 1]
                  /\ UNCHANGED << pool_out, held, pc, result, salevars >>
       \/ SaleAbort(p)
    /\ UNCHANGED << cfgvars, repovars, countervars, stockvars, call, order_id, fetched, pre >>

\* INSERT INTO receipts (order_id, user_id, total_amount, payment_method)
SaleReceipt(p) ==
    /\ pc[p] = "sale_items"
    /\ ItemLoopDone(item_i[p], call[p].items)
    /\ \/ /\ tx' = [tx EXCEPT ![p].receipts = @ (+) SetToBag(
                        { [order_id |-> Val(order_id[p]),
                           payment_method |-> call[p].payment_method,
                           total_amount |-> SaleTotal(call[p].items),
                           user_id |-> call[p].user_id] })]
          /\ pc' = [pc EXCEPT ![p] = "sale_exit"]
          /\ UNCHANGED << pool_out, held, result, salevars, item_i >>
       \/ SaleAbort(p)
    /\ UNCHANGED << cfgvars, repovars, countervars, stockvars, call, order_id, fetched, pre >>

\* Both `async with` blocks of create_sale are left: COMMIT, the connection
\* goes back, return order_id.
SaleExit(p) ==
    /\ pc[p] = "sale_exit"
    /\ \/ /\ sales' = Committed(sales, tx[p].sales)
          /\ sales_items' = sales_items (+) tx[p].items
          /\ receipts' = receipts (+) tx[p].receipts
          /\ Release(p)
          /\ End(p, "value", Val(order_id[p]))
          /\ UNCHANGED << sales_id_seq, item_i >>
       \/ SaleAbort(p)
    /\ UNCHANGED << cfgvars, repovars, countervars, stockvars, call, order_id, fetched, pre >>

\* ----------------------------------------------------- update_sale_status
\* Faulty variant: the UPDATE also resets the amount.
StatusSetAndTotal(r, status) == [r EXCEPT !.status = status, !.total_amount = 0]

\* SET status = $1
StatusSet(r, status) == [r EXCEPT !.status = status]

StartUpdateSaleStatus(p) ==
    \E o \in OrderIds, s \in Statuses :
        Begin(p, [op |-> "update_sale_status", order_id |-> o, status |-> s], "uss_acquire")

\* update_sale_status: async with self.pool.acquire() as conn; an exception
\* is caught and the call returns False.
UssAcquire(p) ==
    /\ pc[p] = "uss_acquire"
    /\ \/ /\ Acquire(p, "uss_execute")
          /\ UNCHANGED tx
       \/ /\ End(p, "false", None)
          /\ UNCHANGED << pool_out, held, tx >>
    /\ UNCHANGED << cfgvars, repovars, countervars, salevars, stockvars, call, localvars, pre >>

\* UPDATE sales SET status = $1 WHERE order_id = $2 (autocommit), then
\* return result == "UPDATE 1".  The result keeps the row count of the status.
UssExecute(p) ==
    /\ pc[p] = "uss_execute"
    /\ Release(p)
    /\ \/ LET matched == { r \in sales : r.order_id = call[p].order_id }
          IN /\ sales' = (sales \ matched) \cup
                            { StatusSet(r, call[p].status) : r \in matched }
             /\ End(p, IF StatusResult(Cardinality(matched)) THEN "true" ELSE "false",
                    Some(Cardinality(matched)))
       \/ /\ End(p, "false", None)
          /\ UNCHANGED sales
    /\ UNCHANGED << cfgvars, repovars, countervars, sales_id_seq, sales_items, receipts, stockvars,
                    call, localvars, pre >>

\* ------------------------------------------------------- get_sale_details
\* The rows of bag B whose sale_id is sid.
ItemsOfSale(B, sid) ==
    LET S == { x \in BagToSet(B) : x.sale_id = sid }
    IN [x \in S |-> CopiesIn(x, B)]

\* Faulty variant: a statement also sees the rows of open transactions.
VisibleDirty(committed, pending) == committed \cup pending

\* What a statement on another connection sees of a table: the committed
\* rows only (read committed, the server's default isolation).
Visible(committed, pending) == committed

StartGetSaleDetails(p) ==
    \E o \in OrderIds :
        Begin(p, [op |-> "get_sale_details", order_id |-> o], "gsd_acquire")

\* get_sale_details: async with self.pool.acquire() as conn (no try/except)
GsdAcquire(p) ==
    /\ pc[p] = "gsd_acquire"
    /\ \/ /\ Acquire(p, "gsd_sale")
          /\ UNCHANGED tx
       \/ /\ End(p, "raise", "Exception")
          /\ UNCHANGED << pool_out, held, tx >>
    /\ UNCHANGED << cfgvars, repovars, countervars, salevars, stockvars, call, localvars, pre >>

\* sale = fetchrow("SELECT * FROM sales WHERE order_id = $1"); `if not sale:
\* return None` leaves the `async with` block.
GsdFetchSale(p) ==
    /\ pc[p] = "gsd_sale"
    /\ \/ LET open == UNION { tx[x].sales : x \in Procs \ {p} }
              matched == { r \in Visible(sales, open) : r.order_id = call[p].order_id }
          IN IF matched = {}
             THEN /\ Release(p)
                  /\ End(p, "none", None)
                  /\ UNCHANGED fetched
             ELSE \E r \in matched :
                     /\ fetched' = [fetched EXCEPT ![p] = Some(r)]
                     /\ pc' = [pc EXCEPT ![p] = "gsd_items"]
                     /\ UNCHANGED << pool_out, held, tx, result >>
       \/ /\ Release(p)
          /\ End(p, "raise", "Exception")
          /\ UNCHANGED fetched
    /\ UNCHANGED << cfgvars, repovars, countervars, salevars, stockvars, call, order_id, item_i,
                    pre >>

\* items = fetch("SELECT * FROM sales_items WHERE sale_id = $1", sale["id"])
\* and the returned dict.
GsdFetchItems(p) ==
    /\ pc[p] = "gsd_items"
    /\ Release(p)
    /\ \/ LET sale == Val(fetched[p])
          IN End(p, "value",
                 [currency |-> sale.currency,
                  items |-> ItemsOfSale(sales_items, sale.id),
                  order_id |-> sale.order_id,
                  status |-> sale.status,
                  total_amount |-> sale.total_amount,
                  user_id |-> sale.user_id])
       \/ End(p, "raise", "Exception")
    /\ UNCHANGED << cfgvars, repovars, countervars, salevars, stockvars, call, localvars, pre >>

\* ------------------------------------------------ add_product_to_warehouse
\* The rows of bag B for the pair (w, pr).
PairRows(B, w, pr) ==
    LET S == { x \in BagToSet(B) : x.warehouse_id = w /\ x.product_id = pr }
    IN [x \in S |-> CopiesIn(x, B)]

RECURSIVE SumCopies(_, _)
SumCopies(B, S) ==
    IF S = {} THEN 0
    ELSE LET x == CHOOSE y \in S : TRUE IN CopiesIn(x, B) + SumCopies(B, S \ {x})

\* The rows of bag B after SET quantity = q.
Requantified(B, q) ==
    LET new(r) == [r EXCEPT !.quantity = NewQuantity(r.quantity, q)]
        S == { new(r) : r \in BagToSet(B) }
    IN [x \in S |-> SumCopies(B, { r \in BagToSet(B) : new(r) = x })]

StartAddProductToWarehouse(p) ==
    \E w \in WarehouseIds, pr \in ProductIds, q \in Quantities :
        Begin(p, [op |-> "add_product_to_warehouse",
                  product_id |-> pr,
                  quantity |-> q,
                  warehouse_id |-> w], "apw_acquire")

\* The transaction of add_product_to_warehouse is left by an exception:
\* ROLLBACK, the connection goes back, `except Exception: return False`.
\* `why` keeps the exception: "fault" (the connection or the server failed)
\* or "unique_violation".
ApwAbort(p, why) ==
    /\ stock_lock' = { l \in stock_lock : l.proc # p }
    /\ Release(p)
    /\ End(p, "false", why)
    /\ UNCHANGED << warehouse_products, fetched >>

\* add_product_to_warehouse: async with self.pool.acquire() as conn
ApwAcquire(p) ==
    /\ pc[p] = "apw_acquire"
    /\ \/ /\ Acquire(p, "apw_select")
          /\ UNCHANGED tx
       \/ /\ End(p, "false", "fault")
          /\ UNCHANGED << pool_out, held, tx >>
    /\ UNCHANGED << cfgvars, repovars, countervars, salevars, stockvars, call, localvars, pre >>

\* existing_quantity = fetchval("SELECT quantity FROM warehouse_products WHERE
\* warehouse_id = $1 AND product_id = $2"): the first matching committed row.
ApwSelect(p) ==
    /\ pc[p] = "apw_select"
    /\ \/ LET rows == BagToSet(PairRows(warehouse_products, call[p].warehouse_id,
                                        call[p].product_id))
          IN /\ IF rows = {}
                THEN fetched' = [fetched EXCEPT ![p] = None]
                ELSE \E r \in rows : fetched' = [fetched EXCEPT ![p] = Some(r.quantity)]
             /\ pc' = [pc EXCEPT ![p] = "apw_write"]
             /\ UNCHANGED << pool_out, held, tx, result, stockvars >>
       \/ ApwAbort(p, "fault")
    /\ UNCHANGED << cfgvars, repovars, countervars, salevars, call, order_id, item_i, pre >>

\* `if existing_quantity is not None`: UPDATE ... SET quantity = $1 (waits for
\* the row locks of an open transaction, then locks the rows it rewrites);
\* else INSERT INTO warehouse_products.  With a unique key on the pair the
\* INSERT waits for an open transaction that inserted the same key and fails
\* when a committed row holds it.
ApwWrite(p) ==
    /\ pc[p] = "apw_write"
    /\ \/ LET w == call[p].warehouse_id
              pr == call[p].product_id
              mine == [proc |-> p, product_id |-> pr, warehouse_id |-> w]
              others == { q \in Procs \ {p} :
                            PairRows(tx[q].stock_insert, w, pr) # EmptyBag }
          IN IF ~IsNone(fetched[p])
             THEN /\ \A l \in stock_lock :
                        l.proc = p \/ l.warehouse_id # w \/ l.product_id # pr
                  /\ tx' = [tx EXCEPT ![p].stock_update =
                                Some(PairRows(warehouse_products, w, pr))]
                  /\ stock_lock' = stock_lock \cup {mine}
                  /\ pc' = [pc EXCEPT ![p] = "apw_exit"]
                  /\ UNCHANGED << pool_out, held, result, warehouse_products, fetched >>
             ELSE IF stock_unique /\ PairRows(warehouse_products, w, pr) # EmptyBag
             THEN ApwAbort(p, "unique_violation")
             ELSE /\ stock_unique => others = {}
                  /\ tx' = [tx EXCEPT ![p].stock_insert = @ (+) SetToBag(
                                { [product_id |-> pr,
                                   quantity |-> call[p].quantity,
                                   warehouse_id |-> w] })]
                  /\ pc' = [pc EXCEPT ![p] = "apw_exit"]
                  /\ UNCHANGED << pool_out, held, result, stockvars, fetched >>
       \/ ApwAbort(p, "fault")
    /\ UNCHANGED << cfgvars, repovars, countervars, salevars, call, order_id, item_i, pre >>

\* Both `async with` blocks are left: COMMIT, the connection goes back,
\* return True.
ApwExit(p) ==
    /\ pc[p] = "apw_exit"
    /\ \/ LET upd == tx[p].stock_update
              rewritten ==
                  IF IsNone(upd) THEN warehouse_products
                  ELSE (warehouse_products (-) Val(upd))
                           (+) Requantified(Val(upd), call[p].quantity)
          IN /\ warehouse_products' = rewritten (+) tx[p].stock_insert
             /\ stock_lock' = { l \in stock_lock : l.proc # p }
             /\ Release(p)
             /\ End(p, "true", TRUE)
             /\ UNCHANGED fetched
       \/ ApwAbort(p, "fault")
    /\ UNCHANGED << cfgvars, repovars, countervars, salevars, call, order_id, item_i, pre >>

\* ---------------------------------------------------------------- get_sales
\* get_sales' default `limit`.
DefaultLimit == 100

RECURSIVE SortById(_)
\* ORDER BY id ASC
SortById(S) ==
    IF S = {} THEN << >>
    ELSE LET m == CHOOSE r \in S : \A o \in S : r.id <= o.id
         IN << m >> \o SortById(S \ {m})

\* LIMIT $n OFFSET $n+1
Page(rows, limit, skip) ==
    SubSeq(rows, skip + 1, IF skip + limit < Len(rows) THEN skip + limit ELSE Len(rows))

\* SELECT * FROM sales WHERE user_id = $1 [AND id IN (SELECT product_id FROM
\* sales_items WHERE warehouse_id = $2)] ORDER BY id ASC LIMIT .. OFFSET ..
SalesQuery(user_id, warehouse_id) ==
    LET in_warehouse ==
            { i.product_id : i \in { x \in BagToSet(sales_items) :
                                        ~IsNone(warehouse_id) /\ x.warehouse_id = Val(warehouse_id) } }
    IN Page(SortById({ r \in sales :
                         /\ r.user_id = user_id
                         /\ IsNone(warehouse_id) \/ r.id \in in_warehouse }),
            DefaultLimit, 0)

\* SELECT * FROM sales_items WHERE sale_id IN (SELECT id FROM sales WHERE
\* order_id = ANY($1)), grouped by sale_id; sale["items"] = items_map.get(id, [])
WithItems(rows) ==
    LET order_ids == { rows[k].order_id : k \in 1..Len(rows) }
        ids == { r.id : r \in { x \in sales : x.order_id \in order_ids } }
        item_rows == [x \in { y \in BagToSet(sales_items) : y.sale_id \in ids }
                        |-> CopiesIn(x, sales_items)]
    IN [k \in 1..Len(rows) |->
            [items |-> ItemsOfSale(item_rows, rows[k].id), sale |-> rows[k]]]

StartGetSales(p) ==
    \E u \in UserIds, w \in {None} \cup { Some(x) : x \in WarehouseIds } :
        Begin(p, [op |-> "get_sales", user_id |-> u, warehouse_id |-> w], "gs_acquire")

\* get_sales: async with self.pool.acquire() as conn; an exception is logged
\* and raised again.
GsAcquire(p) ==
    /\ pc[p] = "gs_acquire"
    /\ \/ /\ Acquire(p, "gs_fetch")
          /\ UNCHANGED tx
       \/ /\ End(p, "raise", "Exception")
          /\ UNCHANGED << pool_out, held, tx >>
    /\ UNCHANGED << cfgvars, repovars, countervars, salevars, stockvars, call, localvars, pre >>

\* rows = fetch(query); `if not order_ids: return sales` leaves the block.
GsFetch(p) ==
    /\ pc[p] = "gs_fetch"
    /\ \/ LET rows == SalesQuery(call[p].user_id, call[p].warehouse_id)
          IN IF rows = << >>
             THEN /\ Release(p)
                  /\ End(p, "value", << >>)
                  /\ UNCHANGED fetched
             ELSE /\ fetched' = [fetched EXCEPT ![p] = Some(rows)]
                  /\ pc' = [pc EXCEPT ![p] = "gs_items"]
                  /\ UNCHANGED << pool_out, held, tx, result >>
       \/ /\ Release(p)
          /\ End(p, "raise", "Exception")
          /\ UNCHANGED fetched
    /\ UNCHANGED << cfgvars, repovars, countervars, salevars, stockvars, call, order_id, item_i,
                    pre >>

\* item_rows = fetch(items_query, order_ids); return sales
GsItems(p) ==
    /\ pc[p] = "gs_items"
    /\ Release(p)
    /\ \/ End(p, "value", WithItems(Val(fetched[p])))
       \/ End(p, "raise", "Exception")
    /\ UNCHANGED << cfgvars, repovars, countervars, salevars, stockvars, call, localvars, pre >>


\* ------------------------------------------------------- query construction
\* A statement under construction: the WHERE parts appended so far, the
\* params collected so far and the next placeholder number.  A part is
\* `cols[1] op $phs[1] OR cols[2] op $phs[2] ...`.
Building(param_index, params, parts) ==
    [param_index |-> param_index, params |-> params, parts |-> parts]

\* if search: query_parts.append("AND (c1 ILIKE $i OR c2 ILIKE $i+1 ..)");
\* params.extend([search_term] * nterms); param_index += step
AddSearch(b, cols, search, nterms, step) ==
    IF Truthy(search)
    THEN Building(b.param_index + step,
                  b.params \o [k \in 1..nterms |-> SearchTerm(Val(search))],
                  Append(b.parts, [cols |-> cols,
                                   op |-> "ilike",
                                   phs |-> [k \in 1..Len(cols) |-> b.param_index + k - 1]]))
    ELSE b

\* if <provided>: query_parts.append(f"AND col op ${param_index}");
\* params.append(value); param_index += 1
AddFilter(b, provided, col, op, arg) ==
    IF provided
    THEN Building(b.param_index + 1,
                  Append(b.params, Val(arg)),
                  Append(b.parts, [cols |-> << col >>, op |-> op, phs |-> << b.param_index >>]))
    ELSE b

\* `if department:` tests truthiness.
DepartmentProvided(department) == Truthy(department)

\* `if min_price is not None:` / `if max_price is not None:` / `if warehouse_id is not None:`
IsProvided(o) == ~IsNone(o)

\* valid_columns of each list operation.
ValidColumns(entity) ==
    CASE entity = "warehouses" -> { "id", "name", "location" }
      [] entity = "sales" -> { "id", "order_id", "total_amount", "currency", "status", "created_at" }
      [] OTHER -> { "id", "sku_code", "sku_name", "price", "cost_price", "supplier", "department" }

\* sort_order = "ASC" if sort_order.lower() == "asc" else "DESC"
SortDirection(sort_order) ==
    IF LowerText(sort_order) = << "a", "s", "c" >> THEN "ASC" ELSE "DESC"

\* Faulty variant: the caller's sort_by goes into the clause unchecked.
OrderClauseUnchecked(entity, sort_by, sort_order) ==
    IF TruthyName(sort_by)
    THEN << Val(sort_by), SortDirection(sort_order) >>
    ELSE << "id", "ASC" >>

\* if sort_by and sort_by in valid_columns: ORDER BY {sort_by} {sort_order}
\* else: ORDER BY id ASC
OrderClause(entity, sort_by, sort_order) ==
    IF TruthyName(sort_by) /\ Val(sort_by) \in ValidColumns(entity)
    THEN << Val(sort_by), SortDirection(sort_order) >>
    ELSE << "id", "ASC" >>

\* SELECT * ... ORDER BY .. LIMIT ${param_index} OFFSET ${param_index + 1};
\* params.extend([limit, skip])
ListStatement(entity, b, order, limit, skip) ==
    [from |-> entity,
     order |-> order,
     page |-> << b.param_index, b.param_index + 1 >>,
     params |-> b.params \o << limit, skip >>,
     select |-> "rows",
     where |-> b.parts]

\* SELECT COUNT(*) ...
CountStatement(entity, b) ==
    [from |-> entity,
     order |-> << >>,
     page |-> << >>,
     params |-> b.params,
     select |-> "count",
     where |-> b.parts]

\* The filters of get_products / get_products_count, in the order the code
\* appends them.
ProductFilters(b, c) ==
    LET b1 == AddSearch(b, << "sku_name", "sku_code", "barcode" >>, c.search, 3, 3)
        b2 == AddFilter(b1, DepartmentProvided(c.department), "department", "=", c.department)
        b3 == AddFilter(b2, IsProvided(c.min_price), "price", ">=", c.min_price)
    IN AddFilter(b3, IsProvided(c.max_price), "price", "<=", c.max_price)

\* ... and of get_local_products / get_local_products_count: the owner scope
\* is $1 and the warehouse filter comes last.
LocalProductFilters(c) ==
    LET b0 == Building(2, << c.user_id >>,
                       << [cols |-> << "user_id" >>, op |-> "=", phs |-> << 1 >>] >>)
    IN AddFilter(ProductFilters(b0, c), IsProvided(c.warehouse_id), "id", "in_stock",
                 c.warehouse_id)

GetProductsQuery(c) ==
    ListStatement("products", ProductFilters(Building(1, << >>, << >>), c),
                  OrderClause("products", c.sort_by, c.sort_order), c.limit, c.skip)

GetLocalProductsQuery(c) ==
    ListStatement("local_products", LocalProductFilters(c),
                  OrderClause("local_products", c.sort_by, c.sort_order), c.limit, c.skip)

GetProductsCountQuery(c) ==
    CountStatement("products", ProductFilters(Building(1, << >>, << >>), c))

GetLocalProductsCountQuery(c) == CountStatement("local_products", LocalProductFilters(c))

\* get_warehouses: the search part uses two placeholders, extends params by
\* three terms and advances param_index by three.
GetWarehousesQuery(c) ==
    LET b0 == Building(2, << c.user_id >>,
                       << [cols |-> << "user_id" >>, op |-> "=", phs |-> << 1 >>] >>)
    IN ListStatement("warehouses", AddSearch(b0, << "name", "location" >>, c.search, 3, 3),
                     OrderClause("warehouses", c.sort_by, c.sort_order), c.limit, c.skip)

\* get_warehouses_count: params starts as [user_id] and param_index as 1.
GetWarehousesCountQuery(c) ==
    LET b0 == Building(1, << c.user_id >>,
                       << [cols |-> << "user_id" >>, op |-> "=", phs |-> << 1 >>] >>)
    IN CountStatement("warehouses", AddSearch(b0, << "name", "location" >>, c.search, 2, 2))

\* get_sales_count: user scope, search on order_id, warehouse filter through
\* sales_items.
GetSalesCountQuery(c) ==
    LET b0 == Building(2, << c.user_id >>,
                       << [cols |-> << "user_id" >>, op |-> "=", phs |-> << 1 >>] >>)
        b1 == AddSearch(b0, << "order_id" >>, c.search, 1, 1)
    IN CountStatement("sales",
                      AddFilter(b1, IsProvided(c.warehouse_id), "id", "in_sale_items",
                                c.warehouse_id))

\* SELECT * FROM warehouses WHERE name = $1 AND user_id = $2
GetWarehouseByNameQuery(c) ==
    [from |-> "warehouses",
     order |-> << >>,
     page |-> << >>,
     params |-> << c.name, c.user_id >>,
     select |-> "row",
     where |-> << [cols |-> << "name" >>, op |-> "=", phs |-> << 1 >>],
                  [cols |-> << "user_id" >>, op |-> "=", phs |-> << 2 >>] >>]

\* -------------------------------------------------------- query execution
\* The columns of each table that the rows of the model carry.
Columns(entity) ==
    CASE entity = "products" ->
            { "id", "sku_name", "sku_code", "barcode", "department", "price", "cost_price",
              "supplier" }
      [] entity = "local_products" ->
            { "id", "sku_name", "sku_code", "barcode", "department", "price", "cost_price",
              "supplier", "user_id" }
      [] entity = "warehouses" -> { "id", "name", "location", "user_id" }
      [] entity = "users" -> { "username", "roles", "is_active" }
      [] entity = "payments" -> { "payment_id", "status", "payment_provider", "updated_at" }
      [] entity = "audit_log" ->
            { "id", "action", "entity", "entity_id", "user_id", "timestamp", "details" }
      [] OTHER -> { "id", "order_id", "user_id", "total_amount", "currency", "status" }

TableOf(entity) ==
    CASE entity = "products" -> products
      [] entity = "local_products" -> local_products
      [] entity = "warehouses" -> warehouses
      [] entity = "users" -> users
      [] entity = "payments" -> payments
      [] entity = "audit_log" -> audit_log
      [] OTHER -> sales

\* The placeholders $n a statement mentions.
Placeholders(q) ==
    UNION { { q.where[k].phs[j] : j \in 1..Len(q.where[k].phs) } : k \in 1..Len(q.where) }
        \cup { q.page[j] : j \in 1..Len(q.page) }

\* The server prepares a statement only when every parameter up to the
\* highest $n is mentioned, and the driver sends it only with exactly as many
\* arguments as it has parameters; an ORDER BY column must exist.
Executable(q) ==
    /\ Placeholders(q) = 1..Len(q.params)
    /\ q.order # << >> => q.order[1] \in Columns(q.from)

\* column op $n
Test(op, v, x) ==
    CASE op = "=" -> v = x
      [] op = ">=" -> v >= x
      [] op = "<=" -> v <= x
      [] op = "ilike" -> ILike(v, x)
      [] op = "in_stock" ->
            v \in { y.product_id : y \in { z \in BagToSet(warehouse_products) :
                                              z.warehouse_id = x } }
      [] OTHER ->
            v \in { y.product_id : y \in { z \in BagToSet(sales_items) :
                                              z.warehouse_id = x } }

Holds(part, r, params) ==
    \E k \in 1..Len(part.cols) : Test(part.op, r[part.cols[k]], params[part.phs[k]])

\* The rows the WHERE clause keeps.
Selected(q) ==
    { r \in TableOf(q.from) : \A k \in 1..Len(q.where) : Holds(q.where[k], r, q.params) }

RECURSIVE SortBy(_, _, _)
\* ORDER BY col dir, for the numeric columns.
SortBy(S, col, dir) ==
    IF S = {} THEN << >>
    ELSE LET m == CHOOSE r \in S :
                    \A o \in S : IF dir = "ASC" THEN r[col] <= o[col] ELSE r[col] >= o[col]
         IN << m >> \o SortBy(S \ {m}, col, dir)

\* rows = await conn.fetch(query, *params)
Fetch(q) ==
    Page(SortBy(Selected(q), q.order[1], q.order[2]), q.params[q.page[1]], q.params[q.page[2]])

\* return result if result else 0
CountResult(n) == IF n # 0 THEN n ELSE 0

\* ------------------------------------------------------------- field maps
\* A caller's Dict[str, Any], in insertion order: a sequence of key / value
\* entries.
Entry(key, value) == [key |-> key, value |-> value]

\* What the server makes of `{key} = $n` in a SET list.  A key that is more
\* than a column name is parsed as the SQL it spells: "price = 0, cost_price"
\* followed by " = $n" assigns the literal to price and $n to cost_price.
\* lit is None where the value is the placeholder's.
SetItems(key) ==
    IF key = "price = 0, cost_price"
    THEN << [col |-> "price", lit |-> Some(0)], [col |-> "cost_price", lit |-> None] >>
    ELSE << [col |-> key, lit |-> None] >>

\* set_parts.append(f"{key} = ${i}") for i, (key, value) in enumerate(data.items(), start=1)
SetParts(data) == [i \in 1..Len(data) |-> [key |-> data[i].key, ph |-> i]]

\* list(data.values())
ValuesOf(data) == [i \in 1..Len(data) |-> data[i].value]

\* UPDATE {entity} SET {set_parts} WHERE {keycol} = ${len(params)} RETURNING ..
UpdateStatement(entity, set, params, keycol, select) ==
    [from |-> entity,
     order |-> << >>,
     page |-> << >>,
     params |-> params,
     select |-> select,
     set |-> set,
     where |-> << [cols |-> << keycol >>, op |-> "=", phs |-> << Len(params) >>] >>]

\* INSERT INTO {entity} ({fields_str}) VALUES ($1, .., $n) RETURNING ..
InsertStatement(entity, data, select) ==
    [from |-> entity,
     order |-> << >>,
     page |-> << >>,
     params |-> ValuesOf(data),
     select |-> select,
     set |-> SetParts(data),
     where |-> << >>]

\* DELETE FROM {entity} WHERE id = $1
DeleteStatement(entity, id) ==
    [from |-> entity,
     order |-> << >>,
     page |-> << >>,
     params |-> << id >>,
     select |-> "delete",
     set |-> << >>,
     where |-> << [cols |-> << "id" >>, op |-> "=", phs |-> << 1 >>] >>]

\* SELECT * FROM {entity} WHERE {keycol} = $1
RowStatement(entity, keycol, keyval, select) ==
    [from |-> entity,
     order |-> << >>,
     page |-> << >>,
     params |-> << keyval >>,
     select |-> select,
     where |-> << [cols |-> << keycol >>, op |-> "=", phs |-> << 1 >>] >>]

\* The assignments of a SET list, in order, each with the value it stores.
RECURSIVE Assignments(_, _, _)
Assignments(set, params, k) ==
    IF k > Len(set) THEN << >>
    ELSE LET items == SetItems(set[k].key)
         IN [j \in 1..Len(items) |->
                [col |-> items[j].col,
                 value |-> IF IsNone(items[j].lit) THEN params[set[k].ph]
                           ELSE Val(items[j].lit)]]
            \o Assignments(set, params, k + 1)

\* Columns that hold NULL or a value; the others hold their value bare.
Nullable == { "roles" }

\* The stored form of a value in a column.
Stored(col, v) == IF col \in Nullable THEN Some(v) ELSE v

RECURSIVE Assigned(_, _, _)
\* The row after the first k assignments.
Assigned(r, as, k) ==
    IF k = 0 THEN r
    ELSE [Assigned(r, as, k - 1) EXCEPT ![as[k].col] = Stored(as[k].col, as[k].value)]

\* The placeholders of a write statement.
WritePlaceholders(q) ==
    { q.set[k].ph : k \in 1..Len(q.set) }
        \cup UNION { { q.where[k].phs[j] : j \in 1..Len(q.where[k].phs) } :
                        k \in 1..Len(q.where) }

\* The server accepts the statement: every assigned column exists and the
\* placeholders are $1..$n for the n arguments sent.
WriteExecutable(q) ==
    /\ WritePlaceholders(q) = 1..Len(q.params)
    /\ LET as == Assignments(q.set, q.params, 1)
       IN \A k \in 1..Len(as) : as[k].col \in Columns(q.from)

\* ---------------------------------------------------------- role encoding
RECURSIVE Join(_)
\* ",".join(roles)
Join(list) ==
    IF Len(list) = 0 THEN << >>
    ELSE IF Len(list) = 1 THEN list[1]
    ELSE list[1] \o << "," >> \o Join(Tail(list))

RECURSIVE Split(_)
\* text.split(",")
Split(t) ==
    IF \A i \in 1..Len(t) : t[i] # "," THEN << t >>
    ELSE LET i == CHOOSE i \in 1..Len(t) : t[i] = "," /\ \A j \in 1..(i - 1) : t[j] # ","
         IN << SubSeq(t, 1, i - 1) >> \o Split(SubSeq(t, i + 1, Len(t)))

\* Faulty variant: the stored text is returned as one role.
RolesReadUnsplit(stored) == IF Truthy(stored) THEN << Val(stored) >> ELSE << >>

\* user_dict["roles"].split(",") if user_dict["roles"] else []
RolesRead(stored) == IF Truthy(stored) THEN Split(Val(stored)) ELSE << >>

\* if "roles" in user_data and isinstance(user_data["roles"], list):
\*     user_data["roles"] = ",".join(user_data["roles"])
RolesJoined(data) ==
    [i \in 1..Len(data) |->
        IF data[i].key = "roles" THEN Entry("roles", Join(data[i].value)) ELSE data[i]]

\* user_dict = dict(user) with roles expanded.
UserDict(r) == [is_active |-> r.is_active, roles |-> RolesRead(r.roles), username |-> r.username]

\* The value a field map gives for a key that it has.
ValueAt(data, key) == data[CHOOSE i \in 1..Len(data) : data[i].key = key].value

\* ------------------------------------------------ list and count operations
TenantIds == {1, 2}

StartGetProducts(p) ==
    \E search \in SearchArgs, department \in DepartmentArgs, min_price \in PriceArgs,
       max_price \in PriceArgs, sort_by \in SortByArgs, sort_order \in SortOrderArgs :
        Begin(p, [department |-> department, limit |-> DefaultLimit, max_price |-> max_price,
                  min_price |-> min_price, op |-> "get_products", search |-> search,
                  skip |-> 0, sort_by |-> sort_by, sort_order |-> sort_order], "q_acquire")

StartGetLocalProducts(p) ==
    \E user_id \in TenantIds, search \in SearchArgs, department \in DepartmentArgs,
       min_price \in PriceArgs, max_price \in PriceArgs,
       warehouse_id \in { None, Some(1) },
       sort_by \in { None, Some("price") },
       sort_order \in { << "a", "s", "c" >>, << "d", "e", "s", "c" >> } :
        Begin(p, [department |-> department, limit |-> DefaultLimit, max_price |-> max_price,
                  min_price |-> min_price, op |-> "get_local_products", search |-> search,
                  skip |-> 0, sort_by |-> sort_by, sort_order |-> sort_order,
                  user_id |-> user_id, warehouse_id |-> warehouse_id], "q_acquire")

StartGetProductsCount(p) ==
    \E search \in SearchArgs, department \in DepartmentArgs, min_price \in PriceArgs,
       max_price \in PriceArgs :
        Begin(p, [department |-> department, max_price |-> max_price, min_price |-> min_price,
                  op |-> "get_products_count", search |-> search], "q_acquire")

StartGetLocalProductsCount(p) ==
    \E user_id \in TenantIds, search \in SearchArgs, department \in DepartmentArgs,
       min_price \in PriceArgs, max_price \in PriceArgs,
       warehouse_id \in { None, Some(1) } :
        Begin(p, [department |-> department, max_price |-> max_price, min_price |-> min_price,
                  op |-> "get_local_products_count", search |-> search, user_id |-> user_id,
                  warehouse_id |-> warehouse_id], "q_acquire")

StartGetWarehouses(p) ==
    \E user_id \in TenantIds, search \in { None, Some(<< >>), Some(<< "A", "S" >>) },
       sort_by \in SortByArgs, sort_order \in SortOrderArgs :
        Begin(p, [limit |-> DefaultLimit, op |-> "get_warehouses", search |-> search,
                  skip |-> 0, sort_by |-> sort_by, sort_order |-> sort_order,
                  user_id |-> user_id], "q_acquire")

StartGetWarehousesCount(p) ==
    \E user_id \in TenantIds, search \in { None, Some(<< >>), Some(<< "A", "S" >>) } :
        Begin(p, [op |-> "get_warehouses_count", search |-> search, user_id |-> user_id],
              "q_acquire")

StartGetSalesCount(p) ==
    \E user_id \in TenantIds, search \in { None, Some(<< >>), Some(<< "D", "-" >>) },
       warehouse_id \in { None, Some(1) } :
        Begin(p, [op |-> "get_sales_count", search |-> search, user_id |-> user_id,
                  warehouse_id |-> warehouse_id], "q_acquire")

StartGetWarehouseByName(p) ==
    \E user_id \in TenantIds,
       name \in { << "d", "e", "p", "o", "t" >>, << "s", "t", "o", "r", "e" >> } :
        Begin(p, [name |-> name, op |-> "get_warehouse_by_name", user_id |-> user_id],
              "q_acquire")

\* The statement and params an operation hands to its connection.
QueryOf(c) ==
    CASE c.op = "get_products" -> GetProductsQuery(c)
      [] c.op = "get_local_products" -> GetLocalProductsQuery(c)
      [] c.op = "get_products_count" -> GetProductsCountQuery(c)
      [] c.op = "get_local_products_count" -> GetLocalProductsCountQuery(c)
      [] c.op = "get_warehouses" -> GetWarehousesQuery(c)
      [] c.op = "get_warehouses_count" -> GetWarehousesCountQuery(c)
      [] c.op = "get_sales_count" -> GetSalesCountQuery(c)
      [] c.op = "update_product" -> RowStatement("products", "id", c.product_id, "row")
      [] c.op \in { "get_user_by_username", "create_user", "update_user" } ->
            RowStatement("users", "username", c.username, "user")
      [] OTHER -> GetWarehouseByNameQuery(c)

\* `except Exception as e: logger.error(...); raise`, for a connection fault
\* ("Exception") or a statement the server or driver rejects
\* ("StatementError").  The handler of get_warehouse_by_name logs and falls
\* off its end: the call returns None.
QueryHandler(p, error) ==
    IF call[p].op = "get_warehouse_by_name"
    THEN End(p, "none", "fault")
    ELSE End(p, "raise", error)

\* The statement is built, then `async with self.pool.acquire() as conn`.
QueryAcquire(p) ==
    /\ pc[p] = "q_acquire"
    /\ query' = [query EXCEPT ![p] = Some(QueryOf(call[p]))]
    /\ \/ /\ Acquire(p, "q_fetch")
          /\ UNCHANGED tx
       \/ /\ QueryHandler(p, "Exception")
          /\ UNCHANGED << pool_out, held, tx >>
    /\ UNCHANGED << cfgvars, entityvars, countervars, salevars, stockvars, call, localvars,
                    pre >>

\* fetch / fetchval / fetchrow of the statement, and the return.
QueryFetch(p) ==
    /\ pc[p] = "q_fetch"
    /\ Release(p)
    /\ LET q == Val(query[p])
       IN \/ /\ Executable(q)
             /\ CASE q.select = "rows" -> End(p, "value", Fetch(q))
                  [] q.select = "count" ->
                        End(p, "value", CountResult(Cardinality(Selected(q))))
                  [] q.select = "user" ->
                        IF Selected(q) = {}
                        THEN End(p, "none", "absent")
                        ELSE \E r \in Selected(q) : End(p, "value", UserDict(r))
                  [] OTHER ->
                        IF Selected(q) = {}
                        THEN End(p, "none", "absent")
                        ELSE \E r \in Selected(q) : End(p, "value", r)
          \/ /\ ~Executable(q)
             /\ QueryHandler(p, "StatementError")
          \/ QueryHandler(p, "Exception")
    /\ UNCHANGED << cfgvars, repovars, countervars, salevars, stockvars, call, localvars, pre >>

\* ------------------------------------------------- entity write operations
\* Field maps the callers pass.
ProductUpdates ==
    { << >>,
      << Entry("price", 7) >>,
      << Entry("no_such_column", 7) >>,
      << Entry("price = 0, cost_price", 4) >> }

NewProduct ==
    << Entry("sku_code", << "N", "4" >>), Entry("sku_name", << "n", "u", "t" >>),
       Entry("barcode", << "6" >>), Entry("price", 2), Entry("cost_price", 1),
       Entry("supplier", << "s" >>), Entry("department", << "g" >>) >>

NewProducts == { NewProduct, Append(NewProduct, Entry("no_such_column", 1)) }

\* Faulty variant: a user_id the caller's map carries is kept.
WithUserIdKept(data, user_id) ==
    IF \E i \in 1..Len(data) : data[i].key = "user_id"
    THEN data
    ELSE Append(data, Entry("user_id", user_id))

\* product_data["user_id"] = user_id: the value of an existing key is
\* replaced in place, a new key goes last.
WithUserId(data, user_id) ==
    IF \E i \in 1..Len(data) : data[i].key = "user_id"
    THEN [i \in 1..Len(data) |->
            IF data[i].key = "user_id" THEN Entry("user_id", user_id) ELSE data[i]]
    ELSE Append(data, Entry("user_id", user_id))

NewLocalProduct ==
    << Entry("sku_code", << "T", "9" >>), Entry("sku_name", << "n", "u", "t" >>),
       Entry("barcode", << "6" >>), Entry("price", 2), Entry("cost_price", 1),
       Entry("supplier", << "s" >>), Entry("department", << "g" >>) >>

\* Field maps for create_local_product: without a user_id, with one (first or
\* last in the map), and with a key that is no column.
NewLocalProducts ==
    { NewLocalProduct, Append(NewLocalProduct, Entry("no_such_column", 1)) }
        \cup { Append(NewLocalProduct, Entry("user_id", u)) : u \in TenantIds }
        \cup { << Entry("user_id", u) >> \o NewLocalProduct : u \in TenantIds }

RoleNames == { << "a" >>, << "v" >>, << >> }

RoleLists == UNION { [1..n -> RoleNames] : n \in 0..MaxRoles }

NewUsers ==
    { << Entry("username", Bob), Entry("is_active", TRUE), Entry("roles", roles) >> :
        roles \in RoleLists }

UserUpdates ==
    { << >>,
      << Entry("is_active", FALSE) >>,
      << Entry("roles", << << "v" >>, << "a" >> >>) >>,
      << Entry("username", Bob) >> }

PaymentUpdates == { << >>, << Entry("status", "done") >> }

StartUpdateProduct(p) ==
    \E product_id \in {1, 9}, product_data \in ProductUpdates :
        Begin(p, [op |-> "update_product", product_data |-> product_data,
                  product_id |-> product_id],
              IF product_data = << >> THEN "q_acquire" ELSE "w_acquire")

StartCreateProduct(p) ==
    \E product_data \in NewProducts :
        Begin(p, [op |-> "create_product", product_data |-> product_data], "w_acquire")

StartCreateLocalProduct(p) ==
    \E product_data \in NewLocalProducts, user_id \in TenantIds :
        Begin(p, [op |-> "create_local_product", product_data |-> product_data,
                  user_id |-> user_id], "w_acquire")

StartDeleteProduct(p) ==
    \E product_id \in {1, 9} :
        Begin(p, [entity |-> "products", id |-> product_id, op |-> "delete_product"],
              "w_acquire")

StartDeleteLocalProduct(p) ==
    \E product_id \in {1, 9} :
        Begin(p, [entity |-> "local_products", id |-> product_id,
                  op |-> "delete_local_product"], "w_acquire")

StartDeleteWarehouse(p) ==
    \E warehouse_id \in {1, 9} :
        Begin(p, [entity |-> "warehouses", id |-> warehouse_id, op |-> "delete_warehouse"],
              "w_acquire")

StartCreateUser(p) ==
    \E user_data \in NewUsers :
        Begin(p, [op |-> "create_user", user_data |-> user_data,
                  username |-> ValueAt(user_data, "username")], "w_acquire")

StartGetUserByUsername(p) ==
    \E username \in { Ann, Bob, Cyd } :
        Begin(p, [op |-> "get_user_by_username", username |-> username], "q_acquire")

StartUpdateUser(p) ==
    \E username \in { Ann, Bob }, user_data \in UserUpdates :
        Begin(p, [op |-> "update_user", user_data |-> user_data, username |-> username],
              IF user_data = << >> THEN "q_acquire" ELSE "w_acquire")

StartUpdatePayment(p) ==
    \E payment_id \in { << "P", "1" >>, << "P", "9" >> }, payment_data \in PaymentUpdates :
        Begin(p, [op |-> "update_payment", payment_data |-> payment_data,
                  payment_id |-> payment_id], "up_check")

StartAddAuditLog(p) ==
    \E action \in { "create", "delete" } :
        Begin(p, [action |-> action, details |-> << >>, entity |-> "product",
                  entity_id |-> << "1" >>, op |-> "add_audit_log", user_id |-> 1],
              "w_acquire")

\* update_payment: `if not payment_data: return None`
UpdatePaymentCheck(p) ==
    /\ pc[p] = "up_check"
    /\ IF call[p].payment_data = << >>
       THEN End(p, "none", "empty")
       ELSE pc' = [pc EXCEPT ![p] = "w_acquire"] /\ UNCHANGED result
    /\ UNCHANGED << cfgvars, repovars, pool_out, countervars, salevars, stockvars, call, held,
                    localvars, tx, pre >>

\* The statement and params a writing operation hands to its connection.
WriteStatementOf(c) ==
    CASE c.op = "update_product" ->
            UpdateStatement("products", SetParts(c.product_data),
                            Append(ValuesOf(c.product_data), c.product_id), "id", "row")
      [] c.op = "create_product" -> InsertStatement("products", c.product_data, "row")
      [] c.op = "create_local_product" ->
            InsertStatement("local_products", WithUserId(c.product_data, c.user_id), "row")
      [] c.op = "create_user" -> InsertStatement("users", RolesJoined(c.user_data), "username")
      [] c.op = "update_user" ->
            UpdateStatement("users", SetParts(c.user_data),
                            Append(ValuesOf(RolesJoined(c.user_data)), c.username),
                            "username", "username")
      [] c.op = "update_payment" ->
            UpdateStatement("payments",
                            Append(SetParts(c.payment_data),
                                   [key |-> "updated_at", ph |-> Len(c.payment_data) + 1]),
                            ValuesOf(c.payment_data) \o << "now", c.payment_id >>,
                            "payment_id", "row")
      [] c.op = "add_audit_log" ->
            InsertStatement("audit_log",
                            << Entry("action", c.action), Entry("entity", c.entity),
                               Entry("entity_id", c.entity_id), Entry("user_id", c.user_id),
                               Entry("timestamp", "now"), Entry("details", c.details) >>,
                            "id")
      [] OTHER -> DeleteStatement(c.entity, c.id)

\* The statement is built, then `async with self.pool.acquire() as conn`.
WriteAcquire(p) ==
    /\ pc[p] = "w_acquire"
    /\ query' = [query EXCEPT ![p] = Some(WriteStatementOf(call[p]))]
    /\ \/ /\ Acquire(p, "w_execute")
          /\ UNCHANGED tx
       \/ /\ End(p, "raise", "Exception")
          /\ UNCHANGED << pool_out, held, tx >>
    /\ UNCHANGED << cfgvars, entityvars, countervars, salevars, stockvars, call, localvars,
                    pre >>

\* The column a table may keep unique: users.username is the business key
\* and products.sku_code is unique, by constraints that the schema, which is
\* not part of the sources, may or may not declare.
UniqueColumn(entity) ==
    CASE entity = "users" -> "username"
      [] entity = "products" -> "sku_code"
      [] OTHER -> "id"

\* The largest of a set of naturals, 0 for the empty set.
MaxOf(S) == IF S = {} THEN 0 ELSE CHOOSE x \in S : \A y \in S : y <= x

\* The value a column gets when the INSERT does not name it.
DefaultOf(entity, col) ==
    IF col # "id" THEN None
    ELSE IF entity = "products" THEN products_id_seq + 1
    ELSE IF entity = "local_products" THEN MaxOf({ r.id : r \in local_products }) + 1
    ELSE Cardinality(TableOf(entity)) + 1

\* The row an INSERT adds.
NewRow(q) ==
    LET as == Assignments(q.set, q.params, 1)
        given == { as[k].col : k \in 1..Len(as) }
    IN [col \in Columns(q.from) |->
            IF col \in given
            THEN Stored(col, as[CHOOSE k \in 1..Len(as) : as[k].col = col].value)
            ELSE DefaultOf(q.from, col)]

\* Faulty variant: an INSERT replaces the rows of the table.
TableAfterReplacing(q) ==
    LET T == TableOf(q.from)
        as == Assignments(q.set, q.params, 1)
    IN CASE q.where = << >> -> { NewRow(q) }
         [] q.select = "delete" -> T \ Selected(q)
         [] OTHER -> (T \ Selected(q)) \cup { Assigned(r, as, Len(as)) : r \in Selected(q) }

\* The table after the statement.
TableAfter(q) ==
    LET T == TableOf(q.from)
        as == Assignments(q.set, q.params, 1)
    IN CASE q.where = << >> -> T \cup { NewRow(q) }
         [] q.select = "delete" -> T \ Selected(q)
         [] OTHER -> (T \ Selected(q)) \cup { Assigned(r, as, Len(as)) : r \in Selected(q) }

\* The INSERT would repeat a value of the column that may be unique.
UniqueViolation(q) ==
    /\ q.where = << >>
    /\ \E r \in TableOf(q.from) : r[UniqueColumn(q.from)] = NewRow(q)[UniqueColumn(q.from)]

\* The tables with `rows` as the new content of `entity`.
TablesBecome(entity, rows) ==
    /\ products' = IF entity = "products" THEN rows ELSE products
    /\ local_products' = IF entity = "local_products" THEN rows ELSE local_products
    /\ warehouses' = IF entity = "warehouses" THEN rows ELSE warehouses
    /\ users' = IF entity = "users" THEN rows ELSE users
    /\ payments' = IF entity = "payments" THEN rows ELSE payments
    /\ audit_log' = IF entity = "audit_log" THEN rows ELSE audit_log
    /\ products_id_seq' =
          IF entity = "products" /\ Cardinality(rows) > Cardinality(products)
          THEN products_id_seq + 1
          ELSE products_id_seq

\* asyncpg's status of a DELETE: "DELETE <count>".
DeleteStatus(n) == << "D", "E", "L", "E", "T", "E", " " >> \o FormatInt(n)

\* result.startswith("DELETE")
StartsWithDelete(status) ==
    Len(status) >= 6 /\ SubSeq(status, 1, 6) = << "D", "E", "L", "E", "T", "E" >>

\* The statement runs, its transaction (or autocommit) commits, the
\* connection is released and the operation returns or goes on to re-read.
WriteExecute(p) ==
    /\ pc[p] = "w_execute"
    /\ Release(p)
    /\ LET q == Val(query[p])
       IN \/ /\ WriteExecutable(q)
             /\ TablesBecome(q.from, TableAfter(q))
             /\ CASE q.select = "delete" ->
                        End(p, IF StartsWithDelete(DeleteStatus(Cardinality(Selected(q))))
                               THEN "true" ELSE "false",
                            Cardinality(Selected(q)))
                  [] q.select = "id" -> End(p, "value", NewRow(q).id)
                  [] q.select = "username" ->
                        IF q.where # << >> /\ Selected(q) = {}
                        THEN End(p, "none", "absent")
                        ELSE pc' = [pc EXCEPT ![p] = "q_acquire"] /\ UNCHANGED result
                  [] OTHER ->
                        IF q.where = << >>
                        THEN End(p, "value", NewRow(q))
                        ELSE IF Selected(q) = {}
                        THEN End(p, "none", "absent")
                        ELSE \E r \in Selected(q) :
                                End(p, "value",
                                    Assigned(r, Assignments(q.set, q.params, 1),
                                             Len(Assignments(q.set, q.params, 1))))
          \/ /\ ~WriteExecutable(q) \/ UniqueViolation(q)
             /\ End(p, "raise", "StatementError")
             /\ UNCHANGED entityvars
          \/ /\ End(p, "raise", "Exception")
             /\ UNCHANGED entityvars
    /\ UNCHANGED << cfgvars, countervars, salevars, stockvars, call, localvars, pre, query >>

\* ---------------------------------------------------------- specifications
Start(p) ==
    \/ StartGenerateOrderId(p)
    \/ StartCreateSale(p)
    \/ StartUpdateSaleStatus(p)
    \/ StartGetSaleDetails(p)
    \/ StartAddProductToWarehouse(p)
    \/ StartGetSales(p)

Step(p) ==
    \/ MintAcquire(p) \/ MintUpdate(p) \/ MintExit(p)
    \/ SaleAcquire(p) \/ SaleHeader(p) \/ SaleItemInsert(p) \/ SaleReceipt(p) \/ SaleExit(p)
    \/ UssAcquire(p) \/ UssExecute(p)
    \/ GsdAcquire(p) \/ GsdFetchSale(p) \/ GsdFetchItems(p)
    \/ ApwAcquire(p) \/ ApwSelect(p) \/ ApwWrite(p) \/ ApwExit(p)
    \/ GsAcquire(p) \/ GsFetch(p) \/ GsItems(p)

Quiescent == \A q \in Procs : pc[q] \in {"idle", "done"}

\* Request coroutines run concurrently, interleaved at every await.
Next == \E p \in Pair : Start(p) \/ Step(p)

\* One request at a time: a call starts only when no other is in flight.
NextSeq == \E p \in Pair : (Quiescent /\ Start(p)) \/ Step(p)

\* Concurrent callers of generate_order_id alone.
NextMint ==
    \E p \in Procs :
        StartGenerateOrderId(p) \/ MintAcquire(p) \/ MintUpdate(p) \/ MintExit(p)

\* add_product_to_warehouse alone, one call after the other.
NextStockSeq ==
    \E p \in Procs :
        \/ Quiescent /\ StartAddProductToWarehouse(p)
        \/ ApwAcquire(p) \/ ApwSelect(p) \/ ApwWrite(p) \/ ApwExit(p)

Spec == Init /\ [][Next]_vars

SpecSeq == Init /\ [][NextSeq]_vars

SpecMint == Init /\ [][NextMint]_vars

SpecStockSeq == Init /\ [][NextStockSeq]_vars

\* Requests that first build their repository object, from a pool that the
\* application did or did not create, and then mint order ids.
InitBoot ==
    /\ db_pool \in { None, Some("pool") }
    /\ service = [p \in Procs |-> "none"]
    /\ pool_size \in 1..MaxPool
    /\ stock_unique \in BOOLEAN
    /\ pool_out = 0
    /\ order_counter = << InitLastNumber >>
    /\ counter_lock = NoProc
    /\ sales_id_seq = 0
    /\ sales = {}
    /\ sales_items = EmptyBag
    /\ receipts = EmptyBag
    /\ warehouse_products = EmptyBag
    /\ stock_lock = {}
    /\ pc = [p \in Procs |-> "idle"]
    /\ call = [p \in Procs |-> NoCall]
    /\ held = [p \in Procs |-> 0]
    /\ order_id = [p \in Procs |-> None]
    /\ item_i = [p \in Procs |-> 1]
    /\ fetched = [p \in Procs |-> None]
    /\ tx = [p \in Procs |-> NoTx]
    /\ result = [p \in Procs |-> NoResult]
    /\ products = ProductRows
    /\ local_products = LocalProductRows
    /\ warehouses = WarehouseRows
    /\ users = UserRows
    /\ payments = PaymentRows
    /\ audit_log = {}
    /\ products_id_seq = Cardinality(ProductRows)
    /\ query = [p \in Procs |-> None]
    /\ pre = Snapshot(NoProc)

NextBoot ==
    \E p \in Procs :
        \/ Construct(p)
        \/ StartGenerateOrderId(p) \/ MintAcquire(p) \/ MintUpdate(p) \/ MintExit(p)

SpecBoot == InitBoot /\ [][NextBoot]_vars

\* The list, count and lookup operations, one call per behaviour, over a
\* catalogue with stock.
InitQuery ==
    /\ db_pool = Some("pool")
    /\ service = [p \in Procs |-> "built"]
    /\ pool_size \in 1..MaxPool
    /\ stock_unique \in BOOLEAN
    /\ pool_out = 0
    /\ order_counter = << InitLastNumber >>
    /\ counter_lock = NoProc
    /\ sales_id_seq = 0
    /\ sales = {}
    /\ sales_items = EmptyBag
    /\ receipts = EmptyBag
    /\ warehouse_products = StockRows
    /\ stock_lock = {}
    /\ pc = [p \in Procs |-> "idle"]
    /\ call = [p \in Procs |-> NoCall]
    /\ held = [p \in Procs |-> 0]
    /\ order_id = [p \in Procs |-> None]
    /\ item_i = [p \in Procs |-> 1]
    /\ fetched = [p \in Procs |-> None]
    /\ tx = [p \in Procs |-> NoTx]
    /\ result = [p \in Procs |-> NoResult]
    /\ products = ProductRows
    /\ local_products = LocalProductRows
    /\ warehouses = WarehouseRows
    /\ users = UserRows
    /\ payments = PaymentRows
    /\ audit_log = {}
    /\ products_id_seq = Cardinality(ProductRows)
    /\ query = [p \in Procs |-> None]
    /\ pre = Snapshot(NoProc)

Fresh == \A q \in Procs : pc[q] = "idle"

StartQuery(p) ==
    \/ StartGetProducts(p)
    \/ StartGetLocalProducts(p)
    \/ StartGetProductsCount(p)
    \/ StartGetLocalProductsCount(p)
    \/ StartGetWarehouses(p)
    \/ StartGetWarehousesCount(p)
    \/ StartGetSalesCount(p)
    \/ StartGetWarehouseByName(p)

NextQuery == \E p \in Pair : (Fresh /\ StartQuery(p)) \/ QueryAcquire(p) \/ QueryFetch(p)

SpecQuery == InitQuery /\ [][NextQuery]_vars

\* The entity operations (products, warehouses, users, payments, audit log),
\* one request at a time.
StartRepo(p) ==
    \/ StartUpdateProduct(p)
    \/ StartCreateProduct(p)
    \/ StartDeleteProduct(p)
    \/ StartDeleteLocalProduct(p)
    \/ StartDeleteWarehouse(p)
    \/ StartCreateUser(p)
    \/ StartGetUserByUsername(p)
    \/ StartUpdateUser(p)
    \/ StartUpdatePayment(p)
    \/ StartAddAuditLog(p)
    \/ StartGetWarehousesCount(p)

NextRepo ==
    \E p \in Pair :
        \/ Quiescent /\ StartRepo(p)
        \/ UpdatePaymentCheck(p) \/ WriteAcquire(p) \/ WriteExecute(p)
        \/ QueryAcquire(p) \/ QueryFetch(p)

SpecRepo == InitQuery /\ [][NextRepo]_vars

\* The order_counter table as the schema leaves it (no row), as it is meant
\* to be (one row), and with a second row.
CounterTables ==
    { << >>, << InitLastNumber >>, << InitLastNumber, InitLastNumber - 5 >> }

InitCounter ==
    /\ db_pool = Some("pool")
    /\ service = [p \in Procs |-> "built"]
    /\ pool_size \in 1..MaxPool
    /\ stock_unique = TRUE
    /\ pool_out = 0
    /\ order_counter \in CounterTables
    /\ counter_lock = NoProc
    /\ sales_id_seq = 0
    /\ sales = {}
    /\ sales_items = EmptyBag
    /\ receipts = EmptyBag
    /\ warehouse_products = EmptyBag
    /\ stock_lock = {}
    /\ pc = [p \in Procs |-> "idle"]
    /\ call = [p \in Procs |-> NoCall]
    /\ held = [p \in Procs |-> 0]
    /\ order_id = [p \in Procs |-> None]
    /\ item_i = [p \in Procs |-> 1]
    /\ fetched = [p \in Procs |-> None]
    /\ tx = [p \in Procs |-> NoTx]
    /\ result = [p \in Procs |-> NoResult]
    /\ products = ProductRows
    /\ local_products = LocalProductRows
    /\ warehouses = WarehouseRows
    /\ users = UserRows
    /\ payments = PaymentRows
    /\ audit_log = {}
    /\ products_id_seq = Cardinality(ProductRows)
    /\ query = [p \in Procs |-> None]
    /\ pre = Snapshot(NoProc)

\* Concurrent generate_order_id and create_sale calls over any counter table.
NextCounter ==
    \E p \in Pair :
        \/ StartGenerateOrderId(p) \/ StartCreateSale(p)
        \/ MintAcquire(p) \/ MintUpdate(p) \/ MintExit(p)
        \/ SaleAcquire(p) \/ SaleHeader(p) \/ SaleItemInsert(p) \/ SaleReceipt(p) \/ SaleExit(p)

SpecCounter == InitCounter /\ [][NextCounter]_vars

\* The tenant-scoped operations on local products and warehouses, one call
\* after the other: a create first, if any, and one list call, in the default
\* order and without an upper price.
StartTenant(p) ==
    \/ Fresh /\ StartCreateLocalProduct(p)
    \/ /\ StartGetLocalProducts(p)
       /\ IsNone(call'[p].sort_by) /\ IsNone(call'[p].max_price)
       /\ \A q \in Procs : call[q].op # "get_local_products"
    \/ StartGetWarehousesCount(p)

NextTenant ==
    \E p \in Pair :
        \/ Quiescent /\ StartTenant(p)
        \/ WriteAcquire(p) \/ WriteExecute(p)
        \/ QueryAcquire(p) \/ QueryFetch(p)

\* The stock table's constraint plays no part in these operations.
InitTenant == InitQuery /\ stock_unique

SpecTenant == InitTenant /\ [][NextTenant]_vars

\* The call of p ended through an injected fault: a failed acquire, a lost
\* connection or a failed statement, reported the way its handler reports it.
FaultEnd(p) ==
    /\ pc[p] = "done"
    /\ CASE result[p].kind = "raise" -> result[p].value \in { "Exception", "UnboundLocalError" }
         [] result[p].kind = "false" ->
               call[p].op = "create_sale"
         [] OTHER -> FALSE

\* Concurrent requests over the operations that take a connection more than
\* once: create_sale, get_sales, create_user and update_user.
\* The arguments are narrowed to one of each shape: the waits on the pool do
\* not depend on the values written.
StartLive(p) ==
    \/ StartCreateSale(p) /\ Len(call'[p].items) = 1
    \/ StartGetSales(p) /\ IsNone(call'[p].warehouse_id)
    \/ StartCreateUser(p) /\ ValueAt(call'[p].user_data, "roles") = << >>
    \/ StartUpdateUser(p) /\ call'[p].username = Ann
    \/ StartGetWarehousesCount(p)

StepLive(p) ==
    \/ MintAcquire(p) \/ MintUpdate(p) \/ MintExit(p)
    \/ SaleAcquire(p) \/ SaleHeader(p) \/ SaleItemInsert(p) \/ SaleReceipt(p) \/ SaleExit(p)
    \/ GsAcquire(p) \/ GsFetch(p) \/ GsItems(p)
    \/ WriteAcquire(p) \/ WriteExecute(p)
    \/ QueryAcquire(p) \/ QueryFetch(p)

NextLive == \E p \in Pair : StartLive(p) \/ StepLive(p)

\* The stock table's constraint plays no part in these operations.
InitLive == Init /\ stock_unique

\* A step of p's call that is not the report of a fault.
Progress(p) == StepLive(p) /\ ~FaultEnd(p)'

\* The event loop runs every coroutine that can go on; faults may happen but
\* need not.
SpecLive == InitLive /\ [][NextLive]_vars /\ \A p \in Pair : WF_vars(Progress(p))

\* ------------------------------------------------------------- properties
Done(p, op) == pc[p] = "done" /\ call[p].op = op

\* The rows a sale of `items` must leave in sales_items under sale id `sid`,
\* each with total = price * quantity of its own item.
RECURSIVE ExpectedItems(_, _, _)
ExpectedItems(items, sid, k) ==
    IF k = 0 THEN EmptyBag
    ELSE ExpectedItems(items, sid, k - 1) (+) SetToBag(
            { [cost_price |-> items[k].cost_price,
               price |-> items[k].price,
               product_id |-> items[k].product_id,
               quantity |-> items[k].quantity,
               sale_id |-> sid,
               total |-> items[k].price * items[k].quantity,
               warehouse_id |-> items[k].warehouse_id] })

RECURSIVE ExpectedTotal(_, _)
ExpectedTotal(items, k) ==
    IF k = 0 THEN 0
    ELSE ExpectedTotal(items, k - 1) + items[k].price * items[k].quantity

SalesOf(o) == { r \in sales : r.order_id = o }

ReceiptsOf(o) ==
    LET S == { x \in BagToSet(receipts) : x.order_id = o }
    IN [x \in S |-> CopiesIn(x, receipts)]

\* create_sale of p returned False with its order id minted.
SaleFailed(p) ==
    Done(p, "create_sale") /\ result[p].kind = "false" /\ ~IsNone(order_id[p])

\* create_sale of p returned its order id.
SaleSucceeded(p) == Done(p, "create_sale") /\ result[p].kind = "value"

\* C1: a create_sale that fails after minting its order id (at the header, at
\* any sales_items insert, at the receipt or at the commit) leaves no sales
\* row and no receipts row for that order id and no sales_items row without
\* its sale, and none of its steps changes sales, sales_items or receipts.
C1_FailedSaleLeavesNothing ==
    /\ [](\A p \in Procs :
            SaleFailed(p) =>
                /\ SalesOf(Val(order_id[p])) = {}
                /\ ReceiptsOf(Val(order_id[p])) = EmptyBag
                /\ \A i \in BagToSet(sales_items) : \E r \in sales : r.id = i.sale_id)
    /\ [][\A p \in Procs :
            (call[p].op = "create_sale" /\ pc[p] # "idle" /\ pc'[p] # pc[p]
                /\ ~(pc'[p] = "done" /\ result'[p].kind = "value"))
              => UNCHANGED << sales, sales_items, receipts >>]_vars

\* A create_sale failed after at least one sales_items insert.
C1_Witness ==
    \E p \in Procs : SaleFailed(p) /\ item_i[p] > 1 /\ Len(call[p].items) > 1

\* C2: after a successful create_sale with N items there is exactly one sales
\* row for the returned order id, exactly N sales_items rows under that
\* sale's id, and exactly one receipts row for the order id; the row is
\* created with status "pending".
C2_SuccessfulSaleRows ==
    /\ [](\A p \in Procs :
            SaleSucceeded(p) =>
                /\ result[p].value = Val(order_id[p])
                /\ Cardinality(SalesOf(result[p].value)) = 1
                /\ \A r \in SalesOf(result[p].value) :
                      BagCardinality(ItemsOfSale(sales_items, r.id)) = Len(call[p].items)
                /\ BagCardinality(ReceiptsOf(result[p].value)) = 1)
    /\ [][\A p \in Procs :
            (pc[p] = "sale_exit" /\ pc'[p] = "done" /\ result'[p].kind = "value")
              => /\ Cardinality({ r \in sales' : r.order_id = result'[p].value }) = 1
                 /\ \A r \in sales' :
                      r.order_id = result'[p].value =>
                          r.status = "pending" /\ r.user_id = call[p].user_id]_vars

\* A create_sale with two items succeeded.
C2_Witness ==
    \E p \in Procs : SaleSucceeded(p) /\ Len(call[p].items) = 2

\* C3: the total_amount of the sales row and of the receipts row of a
\* successful create_sale both equal the sum of price * quantity over its
\* items, its sales_items rows are its items each with total = price *
\* quantity, and a get_sale_details of that order id reports that
\* total_amount and the N items.
C3_TotalsAreSums ==
    \A p \in Procs :
        SaleSucceeded(p) =>
            LET items == call[p].items
                expected == ExpectedTotal(items, Len(items))
            IN /\ \A r \in SalesOf(result[p].value) :
                    /\ r.total_amount = expected
                    /\ ItemsOfSale(sales_items, r.id) = ExpectedItems(items, r.id, Len(items))
               /\ \A x \in BagToSet(ReceiptsOf(result[p].value)) : x.total_amount = expected
               /\ \A q \in Procs :
                    (Done(q, "get_sale_details") /\ result[q].kind = "value"
                        /\ call[q].order_id = result[p].value)
                      => /\ result[q].value.order_id = result[p].value
                         /\ result[q].value.total_amount = expected
                         /\ BagCardinality(result[q].value.items) = Len(items)
                         /\ \A r \in SalesOf(result[p].value) :
                              result[q].value.items = ExpectedItems(items, r.id, Len(items))

\* get_sale_details reported a sale of two different items.
C3_Witness ==
    \E p, q \in Procs :
        /\ SaleSucceeded(p)
        /\ Len(call[p].items) = 2
        /\ call[p].items[1] # call[p].items[2]
        /\ Done(q, "get_sale_details")
        /\ result[q].kind = "value"
        /\ call[q].order_id = result[p].value

\* The number a generate_order_id call of p was handed by its UPDATE.
Minted(p) == Val(fetched[p])

Returned == { p \in Procs : Done(p, "generate_order_id") /\ result[p].kind = "value" }

\* C4: under any interleaving of concurrent generate_order_id calls the
\* returned values are pairwise distinct, each is "ORD-" followed by the
\* decimal digits of the counter value its own increment produced, the
\* numbers handed out are at all times the next ones after the start value
\* with no gap and no repeat (so a later commit never gets a smaller number),
\* and the counter stands exactly as many higher as calls have returned.
C4_DistinctOrderIds ==
    /\ \A p, q \in Returned : p # q => result[p].value # result[q].value
    /\ \A p \in Returned :
          result[p].value = << "O", "R", "D", "-" >> \o FormatInt(Minted(p))
    /\ { Minted(p) : p \in Returned }
          = (InitLastNumber + 1)..(InitLastNumber + Cardinality(Returned))
    /\ order_counter = << InitLastNumber + Cardinality(Returned) >>

\* Three concurrent calls have all returned.
C4_Witness == Returned = Procs

\* The latest call started is p's create_sale and it failed (False or raised).
LatestSaleFailed(p) ==
    /\ pre.by = p
    /\ Done(p, "create_sale")
    /\ result[p].kind \in {"false", "raise"}

\* C5 as stated: after a failed create_sale the order counter has the value
\* it had before the call.
C5_CounterRestoredOnFailure ==
    \A p \in Procs : LatestSaleFailed(p) => order_counter = pre.order_counter

\* C5 amended: the sale header, the items and the receipt are written in one
\* transaction and a failed create_sale leaves sales, sales_items and receipts
\* as they were; the counter increment is committed before, in a transaction
\* of its own, and stays: the counter is one higher when the failure came
\* after the order id was minted and unchanged when minting itself failed.
C5_InsertsAtomicCounterKept ==
    \A p \in Procs :
        LatestSaleFailed(p) =>
            /\ sales = pre.sales
            /\ sales_items = pre.sales_items
            /\ receipts = pre.receipts
            /\ order_counter =
                  IF IsNone(order_id[p]) THEN pre.order_counter
                  ELSE [i \in 1..Len(pre.order_counter) |-> pre.order_counter[i] + 1]

\* A create_sale failed after its header insert; the counter has moved.
C5_Witness ==
    \E p \in Procs :
        /\ LatestSaleFailed(p)
        /\ ~IsNone(order_id[p])
        /\ item_i[p] > 1
        /\ order_counter # pre.order_counter

\* C6: whatever fails (minting the order id, acquiring a connection, any
\* insert), create_sale ends by returning order_id or False, never by
\* raising, and an order id it returns has its sale persisted.
C6_SaleNeverRaises ==
    \A p \in Procs :
        Done(p, "create_sale") =>
            /\ result[p].kind \in {"value", "false"}
            /\ result[p].kind = "value" => SalesOf(result[p].value) # {}

\* The latest call started is p's update_sale_status and it has ended.
LatestStatusUpdate(p) == pre.by = p /\ Done(p, "update_sale_status")

\* C7: update_sale_status ends by returning True or False, True exactly when
\* its UPDATE changed exactly one sales row; the rows with the given order
\* id, and no others, have the new status and nothing else changes; for an
\* order id no sale has it returns False and sales is as before.
C7_StatusUpdateResult ==
    \A p \in Procs :
        LatestStatusUpdate(p) =>
            LET matched == { r \in pre.sales : r.order_id = call[p].order_id }
                executed == ~IsNone(result[p].value)
                updated == IF executed THEN matched ELSE {}
            IN /\ result[p].kind \in {"true", "false"}
               /\ result[p].kind = "true" <=> Cardinality(updated) = 1
               /\ executed => Val(result[p].value) = Cardinality(matched)
               /\ sales = (pre.sales \ updated) \cup
                             { [currency |-> r.currency,
                                id |-> r.id,
                                order_id |-> r.order_id,
                                status |-> call[p].status,
                                total_amount |-> r.total_amount,
                                user_id |-> r.user_id] : r \in updated }
               /\ matched = {} => result[p].kind = "false" /\ sales = pre.sales

\* An update_sale_status changed the one row of an existing sale.
C7_Witness ==
    \E p \in Procs :
        /\ LatestStatusUpdate(p)
        /\ result[p].kind = "true"
        /\ \E r \in pre.sales : r.order_id = call[p].order_id /\ r.status = "pending"
        /\ \E r \in sales : r.order_id = call[p].order_id /\ r.status = call[p].status

\* The latest call started is p's add_product_to_warehouse and it has ended.
LatestStockCall(p) == pre.by = p /\ Done(p, "add_product_to_warehouse")

\* C8: in a sequential series of add_product_to_warehouse calls for a pair,
\* after a call that returned True the pair has exactly one stock row and its
\* quantity is the quantity of that call, whatever was stored before; a call
\* that returned False leaves the stock rows as they were.
C8_StockOverwritten ==
    \A p \in Procs :
        LatestStockCall(p) =>
            IF result[p].kind = "true"
            THEN PairRows(warehouse_products, call[p].warehouse_id, call[p].product_id)
                    = SetToBag({ [product_id |-> call[p].product_id,
                                  quantity |-> call[p].quantity,
                                  warehouse_id |-> call[p].warehouse_id] })
            ELSE warehouse_products = pre.warehouse_products

\* 5 then 8 for the same pair: one row with 8.
C8_Witness ==
    \E p, q \in Procs :
        /\ p # q
        /\ Done(q, "add_product_to_warehouse") /\ result[q].kind = "true"
        /\ call[q].quantity = 5
        /\ LatestStockCall(p) /\ result[p].kind = "true"
        /\ call[p].quantity = 8
        /\ call[p].product_id = call[q].product_id
        /\ call[p].warehouse_id = call[q].warehouse_id
        /\ BagCardinality(pre.warehouse_products) = 1

\* C9: under any interleaving of concurrent add_product_to_warehouse calls
\* the stock table never holds more than one row for a pair and no call
\* returns False unless its connection or the server failed.
C9_ConcurrentStockSerial ==
    /\ \A w \in WarehouseIds, pr \in ProductIds :
          BagCardinality(PairRows(warehouse_products, w, pr)) <= 1
    /\ \A p \in Procs :
          (Done(p, "add_product_to_warehouse") /\ result[p].kind = "false")
            => result[p].value = "fault"

\* C10: every connection a call acquired is back in the pool once the call
\* has ended, however it ended; the number checked out is the number held by
\* the calls in flight and never exceeds the pool size.
C10_ConnectionsReleased ==
    /\ \A p \in Procs : pc[p] \in {"idle", "done"} => held[p] = 0
    /\ \A p \in Procs : held[p] \in {0, 1}
    /\ pool_out = Cardinality({ p \in Procs : held[p] = 1 })
    /\ pool_out <= pool_size

\* get_sales left through its early return, get_sale_details through its
\* `return None`, or a create_sale through a rollback, while the other
\* coroutine holds the only connection.
C10_Witness ==
    \E p, q \in Procs :
        /\ held[q] = 1
        /\ pool_out = pool_size
        /\ \/ Done(p, "get_sale_details") /\ result[p].kind = "none"
           \/ Done(p, "get_sales") /\ result[p].kind = "value"
           \/ SaleFailed(p) /\ item_i[p] > 1

\* C11: every operation other than create_sale and update_sale_status ends a
\* call that met a fault by raising: it returns neither False nor a None or
\* a result that stands for the fault.
C11_FaultsPropagate ==
    \A p \in Procs :
        (pc[p] = "done" /\ call[p].op \notin {"create_sale", "update_sale_status"}) =>
            /\ result[p].kind # "false"
            /\ (call[p].op = "get_warehouse_by_name" /\ result[p].kind = "none")
                  => result[p].value = "absent"

\* The row satisfies every filter the call provides (an argument that is not
\* None), whatever its value.
MatchesFilters(r, c) ==
    /\ IsNone(c.search)
         \/ \E col \in { "sku_name", "sku_code", "barcode" } :
               Contains(LowerText(r[col]), LowerText(Val(c.search)))
    /\ IsNone(c.department) \/ r.department = Val(c.department)
    /\ IsNone(c.min_price) \/ r.price >= Val(c.min_price)
    /\ IsNone(c.max_price) \/ r.price <= Val(c.max_price)

\* The owner scope and the warehouse filter of the local-product operations.
MatchesScope(r, c) ==
    /\ r.user_id = c.user_id
    /\ IsNone(c.warehouse_id)
         \/ \E y \in BagToSet(warehouse_products) :
               y.warehouse_id = Val(c.warehouse_id) /\ y.product_id = r.id

ReturnedRows(p) == { result[p].value[k] : k \in 1..Len(result[p].value) }

\* C15: the rows get_products / get_local_products return are exactly the
\* rows that satisfy every provided filter, a provided empty department or a
\* price bound of 0 included; an omitted filter constrains nothing.
C15_FiltersConjoin ==
    \A p \in Procs :
        /\ (Done(p, "get_products") /\ result[p].kind = "value")
              => ReturnedRows(p) = { r \in products : MatchesFilters(r, call[p]) }
        /\ (Done(p, "get_local_products") /\ result[p].kind = "value")
              => ReturnedRows(p)
                    = { r \in local_products :
                          MatchesFilters(r, call[p]) /\ MatchesScope(r, call[p]) }

\* The list operations whose ORDER BY clause is built from sort_by / sort_order.
ListOps == { "get_products", "get_local_products", "get_warehouses" }

\* The entity a list operation reads.
EntityOf(op) ==
    CASE op = "get_products" -> "products"
      [] op = "get_local_products" -> "local_products"
      [] OTHER -> "warehouses"

C17_DirectionDefaultsAscending ==
    \A p \in Procs :
        (call[p].op \in ListOps /\ ~IsNone(query[p])
            /\ ~IsNone(call[p].sort_by)
            /\ Val(call[p].sort_by) \in ValidColumns(EntityOf(call[p].op))) =>
            LET direction == Val(query[p]).order[2]
            IN /\ direction \in { "ASC", "DESC" }
               /\ LowerText(call[p].sort_order) = << "d", "e", "s", "c" >> => direction = "DESC"
               /\ LowerText(call[p].sort_order) # << "d", "e", "s", "c" >> => direction = "ASC"

CountOps ==
    { "get_products_count", "get_local_products_count", "get_warehouses_count",
      "get_sales_count" }

\* C18: a count operation that met no connection fault returns a natural
\* number, and 0 when its statement selects no row, for every combination of
\* its filters.
C18_CountReturnsZero ==
    \A p \in Procs :
        (pc[p] = "done" /\ call[p].op \in CountOps) =>
            \/ /\ result[p].kind = "value"
               /\ result[p].value \in Nat
               /\ Selected(Val(query[p])) = {} => result[p].value = 0
            \/ /\ result[p].kind = "raise"
               /\ result[p].value = "Exception"

\* The call of p has returned or raised and no later call has started.
Ended(p) == pc[p] = "done" /\ pre.by = p

\* The entity tables are as they were when the latest call started.
TablesUntouched ==
    /\ products = pre.products
    /\ local_products = pre.local_products
    /\ warehouses = pre.warehouses
    /\ users = pre.users
    /\ payments = pre.payments
    /\ audit_log = pre.audit_log

\* The rows an update's target key selects, as a read returns them.
CurrentRows(c) ==
    CASE c.op = "update_product" -> { r \in products : r.id = c.product_id }
      [] c.op = "update_user" -> { UserDict(r) : r \in { u \in users : u.username = c.username } }
      [] OTHER -> { r \in payments : r.payment_id = c.payment_id }

\* The field map of an update call.
FieldMap(c) ==
    CASE c.op \in { "update_product", "create_product" } -> c.product_data
      [] c.op \in { "update_user", "create_user" } -> c.user_data
      [] OTHER -> c.payment_data

\* C12: an update called with an empty field map (update_product,
\* update_user, update_payment) that does not raise writes nothing and
\* returns the current row of its target, None when there is no such row.
C12_EmptyUpdateReturnsCurrentRow ==
    \A p \in Procs :
        (/\ Ended(p)
         /\ call[p].op \in { "update_product", "update_user", "update_payment" }
         /\ FieldMap(call[p]) = << >>
         /\ result[p].kind # "raise")
            => /\ TablesUntouched
               /\ IF CurrentRows(call[p]) = {}
                  THEN result[p].kind = "none"
                  ELSE result[p].kind = "value" /\ result[p].value \in CurrentRows(call[p])

DeleteOps == { "delete_product", "delete_local_product", "delete_warehouse" }

\* The rows of the call's table that are gone since the call started.
RowsRemoved(c) ==
    CASE c.entity = "products" -> pre.products \ products
      [] c.entity = "local_products" -> pre.local_products \ local_products
      [] OTHER -> pre.warehouses \ warehouses

\* C13: a delete operation that does not raise returns True exactly when it
\* removed exactly one row.
C13_DeleteTrueIffOneRow ==
    \A p \in Procs :
        (Ended(p) /\ call[p].op \in DeleteOps /\ result[p].kind # "raise")
            => (result[p].kind = "true" <=> Cardinality(RowsRemoved(call[p])) = 1)

\* The set of the elements of a list.
Range(list) == { list[i] : i \in 1..Len(list) }

\* q read back, by get_user_by_username, the user that p's create_user made.
ReadBack(p, q) ==
    /\ call[p].op = "create_user"
    /\ result[p].kind = "value"
    /\ call[q].op = "get_user_by_username"
    /\ call[q].username = call[p].username
    /\ Ended(q)
    /\ result[q].kind = "value"

\* The roles list handed to create_user.
RolesGiven(c) == ValueAt(c.user_data, "roles")

\* The rows of users that hold the username.
UsersNamed(username) == { r \in users : r.username = username }

\* C14: when one user holds the username, for every list of role names
\* without a comma other than the list whose only element is the empty name,
\* create_user returns, and a following get_user_by_username returns, a roles
\* list with the same set of roles; a stored roles value that is empty or
\* absent reads back as the empty list.
C14_RolesRoundTrip ==
    /\ \A p \in Procs :
          (/\ call[p].op = "create_user"
           /\ pc[p] = "done"
           /\ result[p].kind = "value"
           /\ Cardinality(UsersNamed(call[p].username)) = 1
           /\ RolesGiven(call[p]) # << << >> >>)
              => Range(result[p].value.roles) = Range(RolesGiven(call[p]))
    /\ \A p, q \in Procs :
          (/\ ReadBack(p, q)
           /\ Cardinality(UsersNamed(call[p].username)) = 1
           /\ RolesGiven(call[p]) # << << >> >>)
              => Range(result[q].value.roles) = Range(RolesGiven(call[p]))
    /\ \A q \in Procs :
          (/\ call[q].op = "get_user_by_username"
           /\ Ended(q)
           /\ result[q].kind = "value"
           /\ \A r \in UsersNamed(call[q].username) : ~Truthy(r.roles))
              => result[q].value.roles = << >>

\* Reached: a user made with two different roles was read back by a
\* following get_user_by_username.
C14_Witness ==
    \E p, q \in Procs :
        /\ ReadBack(p, q)
        /\ Cardinality(UsersNamed(call[p].username)) = 1
        /\ Cardinality(Range(RolesGiven(call[p]))) = 2

\* C14 as stated, for every list of role names without a comma.
C14_RolesRoundTripAnyList ==
    /\ \A p \in Procs :
          (/\ call[p].op = "create_user"
           /\ pc[p] = "done"
           /\ result[p].kind = "value"
           /\ Cardinality(UsersNamed(call[p].username)) = 1)
              => Range(result[p].value.roles) = Range(RolesGiven(call[p]))
    /\ \A p, q \in Procs :
          (ReadBack(p, q) /\ Cardinality(UsersNamed(call[p].username)) = 1)
              => Range(result[q].value.roles) = Range(RolesGiven(call[p]))

\* The modelled operations that build SQL from a caller's field map.
FieldMapOps ==
    { "create_product", "update_product", "create_user", "update_user", "update_payment" }

\* The table a field-map operation writes.
TargetOf(op) ==
    CASE op \in { "create_product", "update_product" } -> "products"
      [] op \in { "create_user", "update_user" } -> "users"
      [] OTHER -> "payments"

\* The field map has a key that is no column of the target table.
HasUnknownKey(c) ==
    \E i \in 1..Len(FieldMap(c)) : FieldMap(c)[i].key \notin Columns(TargetOf(c.op))

\* C19: a create or update operation whose field map holds a key that is not
\* a column of the target table never builds a statement and changes no
\* table.
C19_UnknownKeysRejected ==
    \A p \in Procs :
        (call[p].op \in FieldMapOps /\ HasUnknownKey(call[p]))
            => IsNone(query[p]) /\ (pre.by = p => TablesUntouched)

\* The step in which p's add_audit_log returns the new row's id.
AuditLogAdded(p) ==
    /\ call[p].op = "add_audit_log"
    /\ pc[p] = "w_execute"
    /\ pc'[p] = "done"
    /\ result'[p].kind = "value"

Intended(c, part) ==
    CASE part.op = "ilike" -> SearchTerm(Val(c.search))
      [] part.cols = << "user_id" >> -> c.user_id
      [] part.cols = << "department" >> -> Val(c.department)
      [] part.op = ">=" -> Val(c.min_price)
      [] part.op = "<=" -> Val(c.max_price)
      [] OTHER -> Val(c.warehouse_id)

\* The operations whose statement starts with the owner's user_id.
ScopedOps ==
    { "get_local_products", "get_local_products_count", "get_warehouses",
      "get_warehouses_count", "get_sales_count" }

\* C22: the statement of every list and count operation mentions exactly the
\* placeholders $1..$k for its k params; a leading user_id is $1; every
\* placeholder of a predicate is bound to the value meant for that predicate;
\* a list operation's two highest placeholders are limit then offset.
C22_PlaceholdersMatchParams ==
    \A p \in Procs :
        (call[p].op \in ListOps \cup CountOps /\ ~IsNone(query[p])) =>
            LET q == Val(query[p])
                c == call[p]
            IN IF Placeholders(q) # 1..Len(q.params) THEN FALSE
               ELSE /\ c.op \in ScopedOps =>
                          q.where[1].cols = << "user_id" >> /\ q.where[1].phs = << 1 >>
                    /\ \A k \in 1..Len(q.where) : \A j \in 1..Len(q.where[k].phs) :
                          q.params[q.where[k].phs[j]] = Intended(c, q.where[k])
                    /\ c.op \in ListOps =>
                          /\ q.page = << Len(q.params) - 1, Len(q.params) >>
                          /\ q.params[q.page[1]] = c.limit
                          /\ q.params[q.page[2]] = c.skip

\* The statement the list operation of the same entity builds for the count
\* call's filters, with offset 0 and a limit no smaller than the table.
ListOf(c) ==
    LET l == c @@ [limit |-> DefaultLimit, skip |-> 0, sort_by |-> None,
                   sort_order |-> << "a", "s", "c" >>]
    IN CASE c.op = "get_products_count" -> GetProductsQuery(l)
         [] c.op = "get_local_products_count" -> GetLocalProductsQuery(l)
         [] OTHER -> GetWarehousesQuery(l)

\* C23: the count operation of products, local products and warehouses
\* builds the WHERE predicates and bound values of the entity's list
\* operation, fails only on a connection fault, and returns the number of rows
\* the list operation returns with offset 0 and a limit as large as the table.
C23_CountMatchesList ==
    \A p \in Procs :
        (call[p].op \in CountOps \ { "get_sales_count" } /\ ~IsNone(query[p])) =>
            LET q == Val(query[p])
                l == ListOf(call[p])
            IN /\ q.where = l.where
               /\ q.params = SubSeq(l.params, 1, Len(l.params) - 2)
               /\ (pc[p] = "done" /\ result[p].kind = "raise") => result[p].value = "Exception"
               /\ (pc[p] = "done" /\ result[p].kind = "value") =>
                     Executable(l) /\ result[p].value = Len(Fetch(l))

\* The user's sales that have at least one sales_items row in the warehouse.
SalesInWarehouse(user_id, warehouse_id) ==
    { r \in sales :
        /\ r.user_id = user_id
        /\ \E i \in BagToSet(sales_items) : i.sale_id = r.id /\ i.warehouse_id = warehouse_id }

\* C24: get_sales called with a warehouse_id returns exactly the user's
\* sales that have a sales_items row of that warehouse, each with an items
\* list holding exactly the sales_items rows of that sale.
C24_SalesOfWarehouse ==
    \A p \in Procs :
        (/\ Ended(p)
         /\ call[p].op = "get_sales"
         /\ ~IsNone(call[p].warehouse_id)
         /\ result[p].kind = "value") =>
            /\ { result[p].value[k].sale : k \in 1..Len(result[p].value) }
                  = SalesInWarehouse(call[p].user_id, Val(call[p].warehouse_id))
            /\ \A k \in 1..Len(result[p].value) :
                  result[p].value[k].items
                      = ItemsOfSale(sales_items, result[p].value[k].sale.id)

\* The rows of bag B for order id o.
RowsOfOrder(B, o) ==
    LET S == { x \in BagToSet(B) : x.order_id = o }
    IN [x \in S |-> CopiesIn(x, B)]

\* C25: in every step each existing sale keeps its id, order_id, user_id,
\* total_amount and currency, its sales_items rows and its receipt; the step
\* in which update_sale_status runs its UPDATE gives the sales with the given
\* order_id the new status, keeps every other sale as it is and leaves
\* sales_items, receipts and order_counter unchanged.
C25_SaleFrozenButStatus ==
    [][/\ \A r \in sales :
             /\ \E r2 \in sales' : r2 = [r EXCEPT !.status = r2.status]
             /\ ItemsOfSale(sales_items', r.id) = ItemsOfSale(sales_items, r.id)
             /\ RowsOfOrder(receipts', r.order_id) = RowsOfOrder(receipts, r.order_id)
       /\ \A p \in Procs :
             (pc[p] = "uss_execute" /\ pc'[p] = "done") =>
                 /\ sales' = { IF r.order_id = call[p].order_id /\ result'[p].value # None
                               THEN [r EXCEPT !.status = call[p].status] ELSE r : r \in sales }
                 /\ sales_items' = sales_items
                 /\ receipts' = receipts
                 /\ order_counter' = order_counter]_vars

\* Reached: a sale with items and a receipt whose status an update_sale_status
\* has changed.
C25_Witness ==
    \E p \in Procs : \E r \in sales :
        /\ Done(p, "update_sale_status")
        /\ result[p].kind = "true"
        /\ r.order_id = call[p].order_id
        /\ r.status = call[p].status
        /\ r.status # InitialStatus
        /\ ItemsOfSale(sales_items, r.id) # EmptyBag
        /\ RowsOfOrder(receipts, r.order_id) # EmptyBag

\* The positions at which a coroutine waits in pool.acquire().
AcquirePositions ==
    { "mint_acquire", "sale_acquire", "uss_acquire", "gsd_acquire", "apw_acquire",
      "gs_acquire", "q_acquire", "w_acquire" }

\* C26: no operation holds more than one pooled connection, none waits for
\* the pool while it holds one, and every started operation finishes, by the
\* scheduler's fairness alone (no fault is needed to end a wait).
C26_NoPoolDeadlock ==
    /\ [](\A p \in Procs : held[p] <= 1 /\ (pc[p] \in AcquirePositions => held[p] = 0))
    /\ \A p \in Pair : (pc[p] \notin { "idle", "done" }) ~> (pc[p] = "done")

\* Reached: with a pool of one connection, a request waits in acquire while
\* the other request holds the connection.
C26_Witness ==
    /\ pool_size = 1
    /\ \E p, q \in Pair : pc[p] \in AcquirePositions /\ held[q] = 1 /\ call[p].op = "create_sale"
                               /\ ~IsNone(order_id[p])

\* The sales_items row that create_sale writes for `item` under sale `sid`.
ItemRow(item, sid) ==
    [cost_price |-> item.cost_price,
     price |-> item.price,
     product_id |-> item.product_id,
     quantity |-> item.quantity,
     sale_id |-> sid,
     total |-> ItemTotal(item),
     warehouse_id |-> item.warehouse_id]

\* Bag B holds exactly the rows of the sequence `items`, each as often as it
\* occurs there.
IsAllItems(B, items) ==
    /\ BagCardinality(B) = Len(items)
    /\ \A x \in BagToSet(B) :
          CopiesIn(x, B) = Cardinality({ i \in 1..Len(items) : ItemRow(items[i], x.sale_id) = x })

\* C27: a get_sale_details(order_id) that returns a sale returns it with all
\* the items of the create_sale call that minted that order_id, however the
\* two calls interleave.
C27_DetailsCompleteOrNone ==
    \A q, p \in Procs :
        (/\ pc[q] = "done"
         /\ call[q].op = "get_sale_details"
         /\ result[q].kind = "value"
         /\ call[p].op = "create_sale"
         /\ order_id[p] = Some(call[q].order_id))
        => IsAllItems(result[q].value.items, call[p].items)

\* Reached: the details call started before the sale was committed (the
\* tables at its start hold no sale of that order_id) and returned the sale
\* with both items.
C27_Witness ==
    \E q, p \in Procs :
        /\ Ended(q)
        /\ call[q].op = "get_sale_details"
        /\ result[q].kind = "value"
        /\ call[p].op = "create_sale"
        /\ order_id[p] = Some(call[q].order_id)
        /\ Len(call[p].items) = 2
        /\ \A r \in pre.sales : r.order_id # call[q].order_id

\* The field map has the key.
HasKey(data, key) == \E i \in 1..Len(data) : data[i].key = key

\* C28: update_user with a non-empty field map that does not raise returns
\* None exactly when no user held the given username at the call, and
\* otherwise a stored user's record that carries the username and is_active
\* values of the field map, also when the field map changes the username.
C28_UpdateUserReturnsUpdated ==
    \A p \in Procs :
        (/\ Ended(p)
         /\ call[p].op = "update_user"
         /\ call[p].user_data # << >>
         /\ result[p].kind \in { "none", "value" })
        => LET target == { u \in pre.users : u.username = call[p].username }
               data == call[p].user_data
           IN /\ result[p].kind = "none" <=> target = {}
              /\ result[p].kind = "value" =>
                    /\ result[p].value \in { UserDict(u) : u \in users }
                    /\ HasKey(data, "username") =>
                          result[p].value.username = ValueAt(data, "username")
                    /\ HasKey(data, "is_active") =>
                          result[p].value.is_active = ValueAt(data, "is_active")

\* C29: generate_order_id returns "ORD-<n>" with n a value that a counter row
\* took between the call's start and now, whatever rows the table holds, and
\* no two sales are stored under one order_id.
C29_OrderIdIsCounter ==
    /\ \A p \in Procs :
          (/\ Ended(p)
           /\ call[p].op = "generate_order_id"
           /\ result[p].kind = "value")
          => \E i \in 1..Len(order_counter) :
                \E n \in Incremented(pre.order_counter[i])..order_counter[i] :
                    result[p].value = FormatOrderId(Some(n))
    /\ \A r1, r2 \in sales : r1.order_id = r2.order_id => r1 = r2

\* C30: the row create_local_product(product_data, user_id) adds and returns
\* has user_id equal to the argument, whatever user_id product_data carries,
\* and every row get_local_products(user_id, ...) returns has that user_id,
\* for every search and filter.
C30_TenantScoped ==
    \A p \in Procs :
        /\ (/\ Ended(p)
            /\ call[p].op = "create_local_product"
            /\ result[p].kind = "value")
           => /\ result[p].value.user_id = call[p].user_id
              /\ local_products \ pre.local_products = { result[p].value }
        /\ (/\ pc[p] = "done"
            /\ call[p].op = "get_local_products"
            /\ result[p].kind = "value")
           => \A k \in 1..Len(result[p].value) : result[p].value[k].user_id = call[p].user_id

\* Reached: a product was created for one tenant from a map that named the
\* other, and a following search by the first tenant returned it.
C30_Witness ==
    \E p, q \in Procs :
        /\ call[p].op = "create_local_product"
        /\ result[p].kind = "value"
        /\ HasKey(call[p].product_data, "user_id")
        /\ ValueAt(call[p].product_data, "user_id") # call[p].user_id
        /\ Ended(q)
        /\ call[q].op = "get_local_products"
        /\ result[q].kind = "value"
        /\ Truthy(call[q].search)
        /\ \E k \in 1..Len(result[q].value) : result[q].value[k] = result[p].value

====
